---- MODULE Spec2Model ----
(***************************************************************************)
(* Verification model of miskibin/rtx-chat: the entity canonicalizer and   *)
(* the smart memory store (app/neo4j_client.py), the typed Memory API      *)
(* (app/tools/memory.py, app/graph_models.py), the context manager         *)
(* (app/context_manager.py), the agent turn (app/agent.py) and the SSE     *)
(* event generator and confirmation endpoint (app/routers/chat.py).        *)
(***************************************************************************)
EXTENDS Integers, Sequences, FiniteSets, TLC

VARIABLES
    \* ---- neo4j_client.py graph ----
    sim,        \* cosine similarity of the embedder, in hundredths, per pair of texts
    persons,    \* elementId -> [name, aliases, bio]  (Person nodes; embedding = embed(name))
    mems,       \* elementId -> [type, summary]  (Memory nodes; embedding = embed(summary))
    hasMemory,  \* set of Memory elementIds the User has a HAS_MEMORY edge to
    links,      \* set of <<memory elementId, relationship type, person elementId>> edges
    nextEid,    \* next elementId the store hands out to a Person node
    nextMid,    \* next elementId the store hands out to a Memory node
    lastCall,   \* the last operation run: its name, arguments and return value
    \* ---- the typed graph of tools/memory.py and graph_models.py ----
    nodes,      \* elementId -> [label, key, category, emb]  (User, Fact, Preference nodes)
    edges,      \* set of <<from elementId, relationship type, to elementId>>
    nextNode,   \* next elementId the store hands out
    \* ---- context_manager.py ----
    ctxManager,   \* the ContextManager: [enabled, max_context_tokens, window_tokens]
    ctxMessages,  \* the message list handed to process
    ctxSummary,   \* existing_summary handed to process (its length; 0 = "")
    ctxResult,    \* what process returned: [called, messages, event]
    \* ---- agent.py / routers/chat.py: one chat turn ----
    max_tool_runs,         \* ConversationManager.max_tool_runs
    selfMessages,          \* ConversationManager.messages (self.messages), by kind of message
    conversation_summary,  \* whether the stored conversation summary is non-empty
    pc,                    \* where the turn stands
    graph,                 \* the running graph: [node, step, messages]
    llmCalls,              \* LLM calls made in this turn
    toolRuns,              \* tool invocations made in this turn
    nextRunId,             \* next run_id handed to a tool run
    sse,                   \* the events sent on this turn's stream, in order
    \* ---- the turn engine's tool loop and the confirmation broker ----
    iterations,          \* iterations of the tool loop completed in this turn
    pending_tool_calls,  \* the calls of the last assistant message still to be handled
    pending,             \* broker table: tool_call_id -> whether its signal is released
    results,             \* broker table: tool_call_id -> approved
    posted,              \* the <<tool_id, approved>> pairs posted to /chat/confirm
    invoked,             \* the tool calls whose tool has been invoked
    \* ---- sessions running in parallel on the one graph store ----
    sessions             \* session -> its call of _canonicalize_person in flight

neoVars == <<sim, persons, mems, hasMemory, links, nextEid, nextMid, lastCall>>

memVars == <<nodes, edges, nextNode>>

ctxVars == <<ctxManager, ctxMessages, ctxSummary, ctxResult>>

\* everything outside the two graph stores
agentVars == <<max_tool_runs, selfMessages, conversation_summary, pc, graph, llmCalls,
               toolRuns, nextRunId, sse>>

turnVars == <<iterations, pending_tool_calls, pending, results, posted, invoked>>

\* the calls in flight of the sessions that run in parallel
sessVars == <<sessions>>

otherVars == <<ctxVars, agentVars, turnVars, sessVars>>

\* everything but the chat turn
outsideAgent == <<neoVars, memVars, ctxVars, turnVars, sessVars>>

\* what a turn of the engine with the broker leaves alone
outsideTurn == <<sim, persons, mems, hasMemory, links, nextEid, nextMid, ctxVars,
                 max_tool_runs, conversation_summary, graph, sessVars>>

vars == <<neoVars, memVars, otherVars>>

\* ------------------------------------------------------------------------
\* Helpers
\* ------------------------------------------------------------------------
Range(s) == {s[i] : i \in DOMAIN s}

Abs(x) == IF x < 0 THEN -x ELSE x

NoCall == [op |-> "none", arg |-> <<>>]

\* the largest number of Memory nodes the model lets the store hold
MaxMems == 2

\* the largest elementId the typed graph hands out in the model
MaxNodeId == 4

\* ------------------------------------------------------------------------
\* The embedder (external): cosine similarity of two embedded texts.
\* The same text always embeds to the same vector, so Sim(t, t) = 1.00.
\* ------------------------------------------------------------------------
Pair(a, b) == {a, b}

Sim(a, b) == IF a = b THEN 100 ELSE sim[Pair(a, b)]

\* ------------------------------------------------------------------------
\* Names handed to the canonicalizer: strings as sequences of characters.
\* ------------------------------------------------------------------------
NameAl == <<"A", "l">>
NameAlek == <<"a", "l", "e", "k">>
NameAleksandr == <<"A", "l", "e", "k", "s", "a", "n", "d", "r">>
NameBo == <<"B", "o">>

Names == {NameAl, NameAlek, NameAleksandr, NameBo}

NamePairs == {Pair(a, b) : a, b \in Names} \ {{n} : n \in Names}

NameSims == {85, 90}

\* Summaries handed to save_memory, and the similarities their embeddings can have
\* (texts as sequences of words)
TextPrefers == <<"prefers", "TypeScript">>
TextLikes == <<"likes", "TypeScript">>

Texts == {TextPrefers, TextLikes}

TextPairs == {Pair(a, b) : a, b \in Texts} \ {{t} : t \in Texts}

TextSims == {93, 95}

\* "fact" is deduplicated and updates the person bio, "event" is always appended
MemoryTypes == {"fact", "event"}

\* the names save_memory is handed as entities
EntityNames == {NameAl, NameAlek, NameBo}

EntityLists == {<<>>} \cup {<<n>> : n \in EntityNames} \cup {<<NameAlek, NameBo>>}

\* str.lower() on one character
Lower(c) == CASE c = "A" -> "a"
              [] c = "B" -> "b"
              [] OTHER -> c

\* ------------------------------------------------------------------------
\* _canonicalize_person (neo4j_client.py:25-89), on the Person nodes ps with
\* nid the next elementId
\* ------------------------------------------------------------------------
\* the lowest elementId of a non-empty set: records come back in elementId order
First(S) == CHOOSE p \in S : \A q \in S : p <= q

\* step 1: MATCH (p:Person) WHERE p.name_canonical = $name OR $name IN p.aliases
ExactOrAlias(ps, name) ==
    {p \in DOMAIN ps : ps[p].name = name \/ name \in Range(ps[p].aliases)}

\* the mutant: the similarity test of the heuristic alone
HeuristicSimOnly(name, canonical_name) ==
    Sim(name, canonical_name) > 85

\* step 2: high similarity + same first letter + similar length
Heuristic(name, canonical_name) ==
    /\ Sim(name, canonical_name) > 85
    /\ Lower(name[1]) = Lower(canonical_name[1])
    /\ Abs(Len(name) - Len(canonical_name)) <= 6

\* the records of the scan that pass the heuristic
Passing(ps, name) == {p \in DOMAIN ps : Heuristic(name, ps[p].name)}

\* step 2, on acceptance: SET p.aliases = p.aliases + $name
AddAlias(ps, p, name) == [ps EXCEPT ![p].aliases = Append(@, name)]

\* step 3: CREATE (p:Person {name_canonical: $name, aliases: [], summary: ''})
CreatePerson(ps, nid, name) ==
    [q \in DOMAIN ps \cup {nid} |->
        IF q = nid THEN [name |-> name, aliases |-> <<>>, bio |-> <<>>] ELSE ps[q]]

\* the mutant: the scan appends the alias but does not return, so step 3 runs too
CanonicalizeNoReturn(ps, nid, name) ==
    IF ExactOrAlias(ps, name) # {}
    THEN [id |-> First(ExactOrAlias(ps, name)), persons |-> ps, nextEid |-> nid]
    ELSE IF Passing(ps, name) # {}
    THEN [id |-> nid,
          persons |-> CreatePerson(AddAlias(ps, First(Passing(ps, name)), name), nid, name),
          nextEid |-> nid + 1]
    ELSE [id |-> nid, persons |-> CreatePerson(ps, nid, name), nextEid |-> nid + 1]

\* the result of one call: the id returned, the Person nodes and the next
\* elementId afterwards.  The scan "for r in records" returns at the first
\* record that passes.
Canonicalize(ps, nid, name) ==
    IF ExactOrAlias(ps, name) # {}
    THEN [id |-> First(ExactOrAlias(ps, name)), persons |-> ps, nextEid |-> nid]
    ELSE IF Passing(ps, name) # {}
    THEN [id |-> First(Passing(ps, name)),
          persons |-> AddAlias(ps, First(Passing(ps, name)), name),
          nextEid |-> nid]
    ELSE [id |-> nid, persons |-> CreatePerson(ps, nid, name), nextEid |-> nid + 1]

PersonIds == DOMAIN persons

\* a direct call of _canonicalize_person
CanonicalizePerson(name) ==
    LET r == Canonicalize(persons, nextEid, name) IN
    /\ persons' = r.persons
    /\ nextEid' = r.nextEid
    /\ lastCall' = [op |-> "canonicalize", name |-> name, ret |-> r.id]
    /\ UNCHANGED <<sim, mems, hasMemory, links, nextMid, memVars, otherVars>>

\* the mutant: the failure of the embedder swallowed, the Person created without
\* an embedding
CanonicalizeEmbedderDownCreates(ps, nid, name) ==
    IF ExactOrAlias(ps, name) # {}
    THEN [id |-> First(ExactOrAlias(ps, name)), persons |-> ps, nextEid |-> nid,
          raised |-> FALSE]
    ELSE [id |-> nid, persons |-> CreatePerson(ps, nid, name), nextEid |-> nid + 1,
          raised |-> FALSE]

\* one call while embeddings.embed_query raises: step 1 returns before the
\* embedder is called (line 36); otherwise line 39 raises out of the function,
\* before the scan and before the CREATE.  id 0 stands for no return value.
CanonicalizeEmbedderDown(ps, nid, name) ==
    IF ExactOrAlias(ps, name) # {}
    THEN [id |-> First(ExactOrAlias(ps, name)), persons |-> ps, nextEid |-> nid,
          raised |-> FALSE]
    ELSE [id |-> 0, persons |-> ps, nextEid |-> nid, raised |-> TRUE]

\* a direct call of _canonicalize_person while the embedder is down
CanonicalizePersonEmbedderDown(name) ==
    LET r == CanonicalizeEmbedderDown(persons, nextEid, name) IN
    /\ persons' = r.persons
    /\ nextEid' = r.nextEid
    /\ lastCall' = [op |-> "canonicalize_embedder_down", name |-> name, ret |-> r.id,
                    raised |-> r.raised]
    /\ UNCHANGED <<sim, mems, hasMemory, links, nextMid, memVars, otherVars>>

\* get_person_state (neo4j_client.py:218-236): canonicalize, then read the node
GetPersonState(name) ==
    LET r == Canonicalize(persons, nextEid, name) IN
    /\ persons' = r.persons
    /\ nextEid' = r.nextEid
    /\ lastCall' = [op |-> "get_person_state", name |-> name, ret |-> r.id]
    /\ UNCHANGED <<sim, mems, hasMemory, links, nextMid, memVars, otherVars>>

\* ------------------------------------------------------------------------
\* save_memory (neo4j_client.py:95-192)
\* ------------------------------------------------------------------------
MemIds == DOMAIN mems

\* the mutant: the duplicate search without its score filter
SimilarMemoriesAll(type, summary) ==
    {m \in hasMemory : mems[m].type = type}

\* MATCH (u)-[:HAS_MEMORY]->(m:Memory {type: $type}) ... WHERE score > 0.93
SimilarMemories(type, summary) ==
    {m \in hasMemory : mems[m].type = type /\ Sim(mems[m].summary, summary) > 93}

\* ORDER BY score DESC LIMIT 1
BestSimilar(type, summary) ==
    LET S == SimilarMemories(type, summary) IN
    CHOOSE m \in S : \A o \in S :
        \/ Sim(mems[m].summary, summary) > Sim(mems[o].summary, summary)
        \/ Sim(mems[m].summary, summary) = Sim(mems[o].summary, summary) /\ m <= o

\* update_person_bio (neo4j_client.py:195-215): the info is appended to the summary
UpdatePersonBio(ps, pid, info) == [ps EXCEPT ![pid].bio = Append(@, info)]

\* ------------------------------------------------------------------------
\* Relationship types: strings as sequences of characters
\* ------------------------------------------------------------------------
RelatesTo == <<"R", "E", "L", "A", "T", "E", "S", "_", "T", "O">>
ArguedWith == <<"A", "R", "G", "U", "E", "D", "_", "W", "I", "T", "H">>
MetWith == <<"m", "e", "t", "-", "w", "i", "t", "h">>
MetTwice == <<"m", "e", "t", "2">>
Arrow == <<"-", "-", ">">>

RelationshipTypes == {RelatesTo, ArguedWith, MetWith, MetTwice, Arrow, << >>}

\* the characters of the model that are neither letters nor digits nor "_"
Punctuation == {" ", "-", ">"}

\* str.isalnum() on one character
IsAlnum(c) == c \notin Punctuation \cup {"_"}

\* str.upper() on one character
Upper(c) == CASE c = "e" -> "E"
              [] c = "h" -> "H"
              [] c = "i" -> "I"
              [] c = "m" -> "M"
              [] c = "t" -> "T"
              [] c = "w" -> "W"
              [] OTHER -> c

\* "".join(c for c in relationship_type if c.isalnum() or c == "_").upper(),
\* and "RELATES_TO" when nothing is left
SafeRelType(relationship_type) ==
    LET kept == SelectSeq(relationship_type, LAMBDA c : IsAlnum(c) \/ c = "_")
        safe_rel_type == [i \in DOMAIN kept |-> Upper(kept[i])]
    IN IF safe_rel_type = << >> THEN RelatesTo ELSE safe_rel_type

\* "for entity in entities": canonicalize, link, and update the bio for a fact.
\* st = [persons, nextEid, links]
RECURSIVE LinkEntities(_, _, _, _, _, _)
LinkEntities(st, mid, type, summary, entities, safe_rel_type) ==
    IF entities = <<>> THEN st
    ELSE LET r == Canonicalize(st.persons, st.nextEid, Head(entities))
             ps == IF type = "person" \/ type = "fact"
                   THEN UpdatePersonBio(r.persons, r.id, summary) ELSE r.persons
         IN LinkEntities([persons |-> ps, nextEid |-> r.nextEid,
                          links |-> st.links \cup {<<mid, safe_rel_type, r.id>>}],
                         mid, type, summary, Tail(entities), safe_rel_type)

SaveMemory(type, summary, entities, relationship_type) ==
    IF type \in {"preference", "fact"} /\ SimilarMemories(type, summary) # {}
    THEN LET old_id == BestSimilar(type, summary) IN
         /\ mems' = [mems EXCEPT ![old_id].summary = summary]
         /\ lastCall' = [op |-> "save_memory", type |-> type, summary |-> summary,
                         relationship_type |-> relationship_type,
                         ret |-> "updated_existing"]
         /\ UNCHANGED <<sim, persons, hasMemory, links, nextEid, nextMid, memVars, otherVars>>
    ELSE LET mem_id == nextMid
             st == LinkEntities([persons |-> persons, nextEid |-> nextEid,
                                 links |-> links], mem_id, type, summary, entities,
                                SafeRelType(relationship_type))
         IN
         /\ Cardinality(MemIds) < MaxMems
         /\ mems' = [m \in MemIds \cup {mem_id} |->
                       IF m = mem_id THEN [type |-> type, summary |-> summary]
                       ELSE mems[m]]
         /\ hasMemory' = hasMemory \cup {mem_id}
         /\ persons' = st.persons
         /\ links' = st.links
         /\ nextEid' = st.nextEid
         /\ nextMid' = nextMid + 1
         /\ lastCall' = [op |-> "save_memory", type |-> type, summary |-> summary,
                         relationship_type |-> relationship_type,
                         ret |-> mem_id]
         /\ UNCHANGED <<sim, memVars, otherVars>>

\* the typed graph untouched: only the User node of kg_initialize_database
UserNode == [label |-> "User", key |-> "User", category |-> "", emb |-> <<>>]

MemIdle ==
    /\ nodes = <<UserNode>>
    /\ edges = {}
    /\ nextNode = 2

\* no ContextManager in play
CtxIdle ==
    /\ ctxManager = [enabled |-> FALSE, max_context_tokens |-> 0, window_tokens |-> 0]
    /\ ctxMessages = << >>
    /\ ctxSummary = 0
    /\ ctxResult = [called |-> FALSE]

\* nothing but the graph stores in play
\* no graph is running
NoGraph == [node |-> "none", step |-> 0, messages |-> << >>]

\* no chat turn in play
AgentIdle ==
    /\ max_tool_runs = 0
    /\ selfMessages = << >>
    /\ conversation_summary = FALSE
    /\ pc = "none"
    /\ graph = NoGraph
    /\ llmCalls = 0
    /\ toolRuns = 0
    /\ nextRunId = 1
    /\ sse = << >>

\* no tool loop running, both broker tables empty
TurnIdle ==
    /\ iterations = 0
    /\ pending_tool_calls = << >>
    /\ pending = << >>
    /\ results = << >>
    /\ posted = {}
    /\ invoked = {}

\* no session is inside _canonicalize_person
NoSession == [pc |-> "idle", name |-> << >>, target |-> 0, ret |-> 0]

SessionIds == {1, 2}

SessIdle == sessions = [s \in SessionIds |-> NoSession]

OtherIdle == CtxIdle /\ AgentIdle /\ TurnIdle /\ SessIdle

\* the smart memory store untouched
NeoIdle ==
    /\ persons = << >>
    /\ mems = << >>
    /\ hasMemory = {}
    /\ links = {}
    /\ nextEid = 1
    /\ nextMid = 1

\* ------------------------------------------------------------------------
\* The smart memory store: any sequence of calls, one after another
\* ------------------------------------------------------------------------
NeoInit ==
    /\ sim \in {f @@ g : f \in {[p \in NamePairs |-> 90]}, g \in [TextPairs -> TextSims]}
    /\ persons = << >>
    /\ mems = << >>
    /\ hasMemory = {}
    /\ links = {}
    /\ nextEid = 1
    /\ nextMid = 1
    /\ lastCall = NoCall
    /\ MemIdle
    /\ OtherIdle

NeoNext ==
    \/ \E name \in EntityNames : CanonicalizePerson(name)
    \/ \E name \in EntityNames : GetPersonState(name)
    \/ \E type \in MemoryTypes, summary \in Texts, entities \in EntityLists :
          SaveMemory(type, summary, entities, RelatesTo)

SpecNeo == NeoInit /\ [][NeoNext]_vars

\* ------------------------------------------------------------------------
\* save_memory with a caller-supplied relationship type: events about people
\* ------------------------------------------------------------------------
RelNext ==
    \/ \E summary \in Texts, name \in {NameAlek, NameBo},
          relationship_type \in RelationshipTypes :
          SaveMemory("event", summary, <<name>>, relationship_type)
    \/ \E name \in {NameAlek, NameBo} : GetPersonState(name)

SpecRel == NeoInit /\ [][RelNext]_vars

\* ------------------------------------------------------------------------
\* Hybrid retrieval (neo4j_client.py:238-470).  A message is a string, a
\* sequence of characters with " " between its words.
\* ------------------------------------------------------------------------
Min(S) == CHOOSE x \in S : \A y \in S : x <= y

Max(S) == CHOOSE x \in S : \A y \in S : x >= y

\* the orders in which a query without ORDER BY can return the rows S
Orders(S) == {o \in [1..Cardinality(S) -> S] : \A i, j \in DOMAIN o : o[i] = o[j] => i = j}

\* str.lower()
LowerStr(s) == [i \in DOMAIN s |-> Lower(s[i])]

\* re.findall(r'\b\w+\b', s): the maximal runs of word characters of s
RECURSIVE FindAll(_, _, _)
FindAll(s, word, found) ==
    IF s = << >> THEN (IF word = << >> THEN found ELSE Append(found, word))
    ELSE IF IsAlnum(Head(s)) \/ Head(s) = "_"
    THEN FindAll(Tail(s), Append(word, Head(s)), found)
    ELSE FindAll(Tail(s), << >>, IF word = << >> THEN found ELSE Append(found, word))

\* _extract_words_from_message
ExtractWordsFromMessage(message) == FindAll(LowerStr(message), << >>, << >>)

\* length of the longest common subsequence of two strings
RECURSIVE LcsLen(_, _)
LcsLen(a, b) ==
    IF a = << >> \/ b = << >> THEN 0
    ELSE IF Head(a) = Head(b) THEN 1 + LcsLen(Tail(a), Tail(b))
    ELSE Max({LcsLen(Tail(a), b), LcsLen(a, Tail(b))})

\* rapidfuzz fuzz.ratio(a, b) / 100.0, in ten-thousandths: the normalized Indel
\* similarity 2 * lcs / (len(a) + len(b))
Ratio(a, b) ==
    IF Len(a) + Len(b) = 0 THEN 10000 ELSE (20000 * LcsLen(a, b)) \div (Len(a) + Len(b))

\* all_names = [canonical_name] + aliases
AllNames(p) == <<persons[p].name>> \o persons[p].aliases

\* "if word == name.lower()" for some word and some name of the record
ExactMatch(message_words, p) ==
    \E i \in DOMAIN message_words, n \in Range(AllNames(p)) :
        message_words[i] = LowerStr(n)

\* the highest fuzzy ratio a word of the message has to a name of the record
BestRatio(message_words, p) ==
    Max({0} \cup {Ratio(message_words[i], LowerStr(n)) :
                     i \in DOMAIN message_words, n \in Range(AllNames(p))})

\* the mutant: the scan returns at the first record that has any match, exact
\* or fuzzy
DetectEntityHybridFirstHit(user_message, records) ==
    LET message_words == ExtractWordsFromMessage(user_message)
        hit == {i \in DOMAIN records :
                   \/ ExactMatch(message_words, records[i])
                   \/ BestRatio(message_words, records[i]) > 8000}
    IN IF hit # {} THEN records[Min(hit)] ELSE 0

\* _detect_entity_hybrid (neo4j_client.py:282-356) with the Person records in the
\* order the store returned them; 0 stands for None.  An exact match returns at
\* once; the fuzzy and the embedding pass keep the first record of the scan that
\* reaches the best score.
DetectEntityHybrid(user_message, records) ==
    LET message_words == ExtractWordsFromMessage(user_message)
        exact == {i \in DOMAIN records : ExactMatch(message_words, records[i])}
        best_score == Max({0} \cup {BestRatio(message_words, records[i]) : i \in DOMAIN records})
        fuzzy == {i \in DOMAIN records : BestRatio(message_words, records[i]) = best_score}
        best_sim == Max({0} \cup {Sim(user_message, persons[records[i]].name) :
                                     i \in DOMAIN records})
        embedding == {i \in DOMAIN records :
                         Sim(user_message, persons[records[i]].name) = best_sim}
    IN IF records = << >> THEN 0
       ELSE IF exact # {} THEN records[Min(exact)]
       ELSE IF best_score > 8000 THEN records[Min(fuzzy)]
       ELSE IF Len(message_words) <= 4 /\ best_sim > 85 THEN records[Min(embedding)]
       ELSE 0

\* MATCH (u:User)-[:HAS_MEMORY]->(m:Memory) ... WHERE score > 0.5
VectorRecords(user_message) ==
    {m \in hasMemory : Sim(mems[m].summary, user_message) > 50}

\* (p)<-[r]-(m:Memory)
LinkedTo(p) == {m \in MemIds : \E l \in links : l[1] = m /\ l[3] = p}

\* type(r) of the edge from m to p
Relationship(m, p) == (CHOOSE l \in links : l[1] = m /\ l[3] = p)[2]

\* ORDER BY m.importance DESC, m.timestamp DESC
Before(a, b) ==
    \/ mems[a].importance > mems[b].importance
    \/ mems[a].importance = mems[b].importance /\ mems[a].timestamp > mems[b].timestamp

\* _get_entity_subgraph (neo4j_client.py:244-279): the memories of the 1-hop
\* subgraph, in the order of the query, at most limit of them
GetEntitySubgraph(entity_id, limit) ==
    LET L == LinkedTo(entity_id) IN
    [i \in 1..Min({limit, Cardinality(L)}) |->
        CHOOSE m \in L : Cardinality({o \in L : Before(o, m)}) = i - 1]

\* the mutant: a memory in both sets scored max(s, 0.9) + 0.05
StructuralScoreAdds(m, user_message, subgraph, semantic) ==
    IF m \notin Range(subgraph) THEN Sim(mems[m].summary, user_message)
    ELSE IF m \in Range(semantic) THEN Max({Sim(mems[m].summary, user_message), 90}) + 5
    ELSE 90

\* the score of memory m after the merge of neo4j_client.py:411-430
StructuralScore(m, user_message, subgraph, semantic) ==
    IF m \notin Range(subgraph) THEN Sim(mems[m].summary, user_message)
    ELSE IF m \in Range(semantic) THEN Max({Sim(mems[m].summary, user_message), 95})
    ELSE 90

\* all_memories.values() (neo4j_client.py:375-430) in insertion order: the vector
\* records as the store returned them, then the memories only the subgraph has
AllMemories(user_message, top_k, person_id, vector_records) ==
    LET semantic == SelectSeq(vector_records, LAMBDA m : m \in VectorRecords(user_message))
        subgraph == IF person_id # 0 THEN GetEntitySubgraph(person_id, top_k * 2) ELSE << >>
        graph_only == SelectSeq(subgraph, LAMBDA m : m \notin Range(semantic))
        inserted == semantic \o graph_only
    IN [i \in DOMAIN inserted |->
          [eid |-> inserted[i],
           score |-> StructuralScore(inserted[i], user_message, subgraph, semantic),
           source |-> IF inserted[i] \in Range(semantic) THEN "semantic" ELSE "graph",
           relationship |-> inserted[i] \in Range(subgraph)]]

\* sorted(all_memories.values(), key=score, reverse=True)[:top_k]; the sort is
\* stable, so entries of equal score keep their insertion order
SortedMems(all_memories, top_k) ==
    LET rank(i) == Cardinality({j \in DOMAIN all_memories :
                      \/ all_memories[j].score > all_memories[i].score
                      \/ all_memories[j].score = all_memories[i].score /\ j < i})
    IN [r \in 1..Min({top_k, Len(all_memories)}) |->
          all_memories[CHOOSE i \in DOMAIN all_memories : rank(i) = r - 1]]

\* steps 4 and 5 (neo4j_client.py:435-468): the prefix of a result, as the set of
\* its <<relationship, name>> parts, and the result
FormatResult(mem, person_id) ==
    [summary |->
        [prefix |-> IF mem.relationship /\ person_id # 0
                    THEN {<<Relationship(mem.eid, person_id), persons[person_id].name>>}
                    ELSE {<<l[2], persons[l[3]].name>> : l \in {e \in links : e[1] = mem.eid}},
         text |-> mems[mem.eid].summary],
     score |-> mem.score,
     type |-> mems[mem.eid].type]

\* get_context_aware_memories (neo4j_client.py:358-470): sorted_mems and the
\* returned list
Retrieve(user_message, top_k, records, vector_records) ==
    LET person_id == DetectEntityHybrid(user_message, records)
        sorted_mems == SortedMems(AllMemories(user_message, top_k, person_id,
                                              vector_records), top_k)
    IN [person_id |-> person_id,
        sorted_mems |-> sorted_mems,
        results |-> [i \in DOMAIN sorted_mems |-> FormatResult(sorted_mems[i], person_id)]]

\* the largest top_k the model hands to the retriever
MaxTopK == 2

\* messages handed to the retriever
QueryAlek == <<"a", "l", "e", "k">>
QueryAleks == <<"a", "l", "e", "k", "s">>
QueryAleksBo == <<"A", "l", "e", "k", "s", " ", "B", "o">>
QueryHi == <<"h", "i">>
QueryLong == <<"k", " ", "k", " ", "k", " ", "k", " ", "k">>

Queries == {QueryAlek, QueryAleks, QueryAleksBo, QueryHi, QueryLong}

\* a direct call of _detect_entity_hybrid, as the tests make it
DetectEntity(user_message, records) ==
    /\ lastCall' = [op |-> "detect_entity_hybrid", user_message |-> user_message,
                    records |-> records,
                    person_id |-> DetectEntityHybrid(user_message, records)]
    /\ UNCHANGED <<sim, persons, mems, hasMemory, links, nextEid, nextMid, memVars, otherVars>>

GetContextAwareMemories(user_message, top_k, records, vector_records) ==
    LET r == Retrieve(user_message, top_k, records, vector_records) IN
    /\ lastCall' = [op |-> "get_context_aware_memories", user_message |-> user_message,
                    top_k |-> top_k, records |-> records,
                    vector_records |-> vector_records, person_id |-> r.person_id,
                    sorted_mems |-> r.sorted_mems, ret |-> r.results]
    /\ UNCHANGED <<sim, persons, mems, hasMemory, links, nextEid, nextMid, memVars, otherVars>>

\* the stores retrieval runs on: Alek (alias Aleksandr) and Bo, and three event
\* memories of decreasing importance, each linked to at most one of them
TextMet == <<"met", "again">>

RetrTexts == <<TextPrefers, TextLikes, TextMet>>

\* the similarities the embedder can give a memory and a message
QuerySims == {40, 90, 97}

\* the similarities the embedder can give the name alek and a message
NameQuerySims == {80, 90}

RetrSimTable(score, name_sim) ==
    [pr \in {Pair(q, t) : q \in Queries, t \in Range(RetrTexts) \cup {NameAlek, NameBo}} |->
        IF \E m \in DOMAIN RetrTexts : RetrTexts[m] \in pr
        THEN score[CHOOSE m \in DOMAIN RetrTexts : RetrTexts[m] \in pr]
        ELSE IF NameBo \in pr THEN 80
        ELSE name_sim]

RetrInit ==
    /\ sim \in {RetrSimTable(score, name_sim) :
                   score \in [DOMAIN RetrTexts -> QuerySims], name_sim \in NameQuerySims}
    /\ persons = <<[name |-> NameAlek, aliases |-> <<NameAleksandr>>, bio |-> << >>],
                   [name |-> NameBo, aliases |-> << >>, bio |-> << >>]>>
    /\ mems = [m \in DOMAIN RetrTexts |->
                 [type |-> "event", summary |-> RetrTexts[m],
                  importance |-> 10 - 2 * m, timestamp |-> m]]
    /\ hasMemory = DOMAIN RetrTexts
    /\ links \in {{<<m, RelatesTo, to[m]>> : m \in {x \in DOMAIN to : to[x] # 0}} :
                     to \in [DOMAIN RetrTexts -> {0, 1, 2}]}
    /\ nextEid = 3
    /\ nextMid = 4
    /\ lastCall = NoCall
    /\ MemIdle
    /\ OtherIdle

\* retrieval and detection only read the store, so one call per store shows
\* everything a sequence of calls can
RetrNext ==
    /\ lastCall = NoCall
    /\ \/ \E user_message \in Queries, records \in Orders(PersonIds) :
             DetectEntity(user_message, records)
       \/ \E user_message \in Queries, top_k \in 1..MaxTopK,
             records \in Orders(PersonIds), vector_records \in Orders(hasMemory) :
             GetContextAwareMemories(user_message, top_k, records, vector_records)

SpecRetr == RetrInit /\ [][RetrNext]_vars

\* ------------------------------------------------------------------------
\* The canonicalizer alone, for every similarity the embedder can give
\* ------------------------------------------------------------------------
CanonInit ==
    /\ sim \in {f @@ g : f \in [NamePairs -> NameSims], g \in {[p \in TextPairs |-> 50]}}
    /\ persons = << >>
    /\ mems = << >>
    /\ hasMemory = {}
    /\ links = {}
    /\ nextEid = 1
    /\ nextMid = 1
    /\ lastCall = NoCall
    /\ MemIdle
    /\ OtherIdle

CanonNext ==
    \/ \E name \in Names : CanonicalizePerson(name)
    \/ \E name \in Names : GetPersonState(name)
    \/ \E name \in Names : CanonicalizePersonEmbedderDown(name)

SpecCanon == CanonInit /\ [][CanonNext]_vars

\* ------------------------------------------------------------------------
\* _canonicalize_person called by sessions that run in parallel: the function
\* holds no lock and opens no transaction, each driver.execute_query is one
\* auto-commit query, and the store has no uniqueness constraint on
\* name_canonical.  One action per query; the scan between the second query
\* and the write works on the records that query returned.
\* ------------------------------------------------------------------------
\* lines 30-36: the exact or alias lookup
SessLookup(s, name) ==
    /\ sessions[s].pc = "idle"
    /\ LET found == ExactOrAlias(persons, name) IN
       sessions' = [sessions EXCEPT ![s] =
                       IF found # {}
                       THEN [pc |-> "done", name |-> name, target |-> 0, ret |-> First(found)]
                       ELSE [pc |-> "scan", name |-> name, target |-> 0, ret |-> 0]]
    /\ UNCHANGED <<neoVars, memVars, ctxVars, agentVars, turnVars>>

\* lines 39-59: embed the name, read every Person, scan the records read
SessScan(s) ==
    /\ sessions[s].pc = "scan"
    /\ LET passing == Passing(persons, sessions[s].name) IN
       sessions' = [sessions EXCEPT ![s] =
                       IF passing # {}
                       THEN [@ EXCEPT !.pc = "set_alias", !.target = First(passing)]
                       ELSE [@ EXCEPT !.pc = "create"]]
    /\ UNCHANGED <<neoVars, memVars, ctxVars, agentVars, turnVars>>

\* lines 64-70: SET p.aliases = p.aliases + $name, return r["id"]
SessSetAlias(s) ==
    /\ sessions[s].pc = "set_alias"
    /\ persons' = AddAlias(persons, sessions[s].target, sessions[s].name)
    /\ sessions' = [sessions EXCEPT ![s] = [@ EXCEPT !.pc = "done",
                                                        !.ret = sessions[s].target]]
    /\ UNCHANGED <<sim, mems, hasMemory, links, nextEid, nextMid, lastCall>>
    /\ UNCHANGED <<memVars, ctxVars, agentVars, turnVars>>

\* lines 73-89: CREATE (p:Person {name_canonical: $name, ...}) RETURN elementId(p)
SessCreate(s) ==
    /\ sessions[s].pc = "create"
    /\ persons' = CreatePerson(persons, nextEid, sessions[s].name)
    /\ nextEid' = nextEid + 1
    /\ sessions' = [sessions EXCEPT ![s] = [@ EXCEPT !.pc = "done", !.ret = nextEid]]
    /\ UNCHANGED <<sim, mems, hasMemory, links, nextMid, lastCall>>
    /\ UNCHANGED <<memVars, ctxVars, agentVars, turnVars>>

ParInit == CanonInit

ParNext ==
    \/ \E s \in SessionIds, name \in Names : SessLookup(s, name)
    \/ \E s \in SessionIds : SessScan(s)
    \/ \E s \in SessionIds : SessSetAlias(s)
    \/ \E s \in SessionIds : SessCreate(s)

SpecPar == ParInit /\ [][ParNext]_vars

\* ------------------------------------------------------------------------
\* The typed Memory API (tools/memory.py) over graph_models.py
\* ------------------------------------------------------------------------
\* Fact contents / Preference instructions and Fact categories handed to the tools
ValueTesla == "Owns red Tesla Model 3"
ValueATesla == "Owns a red Tesla Model 3"

Values == {ValueTesla, ValueATesla}

Categories == {"possession", "vehicle"}

\* Fact.embedding_text = f"{content} {category}" (graph_models.py:109-111)
FactText(content, category) == <<content, category>>

\* Preference.embedding_text = instruction (graph_models.py:125-127)
PreferenceText(instruction) == <<instruction>>

ApiTexts == {FactText(v, k) : v \in Values, k \in Categories}
                \cup {PreferenceText(v) : v \in Values}

ApiPairs == {Pair(a, b) : a, b \in ApiTexts} \ {{t} : t \in ApiTexts}

\* The embedder on these texts: sc is the similarity of two texts that differ in
\* their content, sk of two Fact texts that differ in their category only.
ApiSimTable(sc, sk) ==
    [p \in ApiPairs |->
        LET a == CHOOSE x \in p : TRUE
            b == CHOOSE x \in p \ {a} : TRUE
        IN IF Len(a) # Len(b) THEN 50
           ELSE IF a[1] = b[1] THEN sk
           ELSE IF Len(a) = 2 /\ a[2] # b[2] THEN (IF sc < sk THEN sc ELSE sk)
           ELSE sc]

ContentSims == {50, 93, 95}

CategorySims == {50, 95}

NodeIds == DOMAIN nodes

NodesOf(label) == {n \in NodeIds : nodes[n].label = label}

\* the score of the top hit of db.index.vector.queryNodes(index, 1, embedding)
TopHit(label, embedding) ==
    LET S == NodesOf(label) IN
    CHOOSE n \in S : \A o \in S :
        \/ Sim(nodes[n].emb, embedding) > Sim(nodes[o].emb, embedding)
        \/ Sim(nodes[n].emb, embedding) = Sim(nodes[o].emb, embedding) /\ n <= o

\* the mutant: the threshold test made strict
CheckDuplicateStrict(label, embedding) ==
    IF NodesOf(label) # {} /\ Sim(nodes[TopHit(label, embedding)].emb, embedding) > 93
    THEN [is_dup |-> TRUE, id |-> TopHit(label, embedding)]
    ELSE [is_dup |-> FALSE, id |-> 0]

\* check_duplicate (tools/memory.py:26-36), threshold 0.93
CheckDuplicate(label, embedding) ==
    IF NodesOf(label) # {} /\ Sim(nodes[TopHit(label, embedding)].emb, embedding) >= 93
    THEN [is_dup |-> TRUE, id |-> TopHit(label, embedding)]
    ELSE [is_dup |-> FALSE, id |-> 0]

\* the nodes MERGE (n:Label {key}) matches
Matching(ns, label, key) == {n \in DOMAIN ns : ns[n].label = label /\ ns[n].key = key}

\* the mutant: save() with CREATE in place of MERGE
SaveAlwaysCreate(label, key, category, embedding) ==
    [n \in NodeIds \cup {nextNode} |->
        IF n = nextNode
        THEN [label |-> label, key |-> key, category |-> category, emb |-> embedding]
        ELSE nodes[n]]

\* Neo4jModel.save (graph_models.py:31-48): MERGE on the merge key, SET the rest
Save(label, key, category, embedding) ==
    IF Matching(nodes, label, key) # {}
    THEN [n \in NodeIds |->
            IF n \in Matching(nodes, label, key)
            THEN [nodes[n] EXCEPT !.category = category, !.emb = embedding]
            ELSE nodes[n]]
    ELSE [n \in NodeIds \cup {nextNode} |->
            IF n = nextNode
            THEN [label |-> label, key |-> key, category |-> category, emb |-> embedding]
            ELSE nodes[n]]

\* MATCH (u:User) MATCH (f:Label {key}) MERGE (u)-[:TYPE]->(f)
MergeOwnerEdges(ns, label, key, type) ==
    edges \cup {<<u, type, f>> : u \in {n \in DOMAIN ns : ns[n].label = "User"},
                                 f \in Matching(ns, label, key)}

\* whether this call repeats the call before it
Repeats(op, arg) == lastCall.op = op /\ lastCall.arg = arg

\* add_fact (tools/memory.py:216-232): what the call does to the typed graph
add_fact(content, category) ==
    LET embedding == FactText(content, category)
        dup == CheckDuplicate("Fact", embedding)
        saved == Save("Fact", content, category, embedding)
        call == [op |-> "add_fact", arg |-> <<content, category>>,
                 twice |-> Repeats("add_fact", <<content, category>>)]
    IN
    IF dup.is_dup
    THEN /\ lastCall' = call @@ [ret |-> "similar_exists", id |-> dup.id]
         /\ UNCHANGED <<nodes, edges, nextNode>>
    ELSE /\ DOMAIN saved = NodeIds \/ nextNode <= MaxNodeId
         /\ nodes' = saved
         /\ nextNode' = IF DOMAIN saved = NodeIds THEN nextNode ELSE nextNode + 1
         /\ edges' = MergeOwnerEdges(saved, "Fact", content, "HAS_FACT")
         /\ lastCall' = call @@ [ret |-> "added", id |-> 0]

\* add_fact called on its own
AddFact(content, category) ==
    /\ add_fact(content, category)
    /\ UNCHANGED <<sim, persons, mems, hasMemory, links, nextEid, nextMid, otherVars>>

\* add_preference (tools/memory.py:235-249)
AddPreference(instruction) ==
    LET embedding == PreferenceText(instruction)
        dup == CheckDuplicate("Preference", embedding)
        saved == Save("Preference", instruction, "", embedding)
        call == [op |-> "add_preference", arg |-> <<instruction>>,
                 twice |-> Repeats("add_preference", <<instruction>>)]
    IN
    IF dup.is_dup
    THEN /\ lastCall' = call @@ [ret |-> "similar_exists", id |-> dup.id]
         /\ UNCHANGED <<nodes, edges, nextNode>>
         /\ UNCHANGED <<sim, persons, mems, hasMemory, links, nextEid, nextMid, otherVars>>
    ELSE /\ DOMAIN saved = NodeIds \/ nextNode <= MaxNodeId
         /\ nodes' = saved
         /\ nextNode' = IF DOMAIN saved = NodeIds THEN nextNode ELSE nextNode + 1
         /\ edges' = MergeOwnerEdges(saved, "Preference", instruction, "HAS_PREFERENCE")
         /\ lastCall' = call @@ [ret |-> "added", id |-> 0]
         /\ UNCHANGED <<sim, persons, mems, hasMemory, links, nextEid, nextMid, otherVars>>

\* update_fact_or_preference (tools/memory.py:268-292)
UpdateFactOrPreference(item_id, new_value) ==
    LET call == [op |-> "update_fact_or_preference", arg |-> <<item_id, new_value>>,
                 twice |-> Repeats("update_fact_or_preference", <<item_id, new_value>>),
                 id |-> item_id]
    IN
    /\ IF item_id \in NodesOf("Fact")
       THEN /\ nodes' = [nodes EXCEPT ![item_id].key = new_value,
                                      ![item_id].emb = FactText(new_value, nodes[item_id].category)]
            /\ lastCall' = call @@ [ret |-> "updated"]
       ELSE IF item_id \in NodesOf("Preference")
       THEN /\ nodes' = [nodes EXCEPT ![item_id].key = new_value,
                                      ![item_id].emb = PreferenceText(new_value)]
            /\ lastCall' = call @@ [ret |-> "updated"]
       ELSE /\ nodes' = nodes
            /\ lastCall' = call @@ [ret |-> "not_found"]
    /\ UNCHANGED <<edges, nextNode>>
    /\ UNCHANGED <<sim, persons, mems, hasMemory, links, nextEid, nextMid, otherVars>>

\* delete_memory (tools/memory.py:295-300): MATCH (n) WHERE elementId(n) = $id DETACH DELETE n
delete_memory(item_id) ==
    LET call == [op |-> "delete_memory", arg |-> <<item_id>>,
                 twice |-> Repeats("delete_memory", <<item_id>>), id |-> item_id]
    IN
    /\ IF item_id \in NodeIds
       THEN /\ nodes' = [n \in NodeIds \ {item_id} |-> nodes[n]]
            /\ edges' = {e \in edges : e[1] # item_id /\ e[3] # item_id}
            /\ lastCall' = call @@ [ret |-> "deleted"]
       ELSE /\ UNCHANGED <<nodes, edges>>
            /\ lastCall' = call @@ [ret |-> "not_found"]
    /\ UNCHANGED nextNode

\* delete_memory called on its own
DeleteMemory(item_id) ==
    /\ delete_memory(item_id)
    /\ UNCHANGED <<sim, persons, mems, hasMemory, links, nextEid, nextMid, otherVars>>

\* the Memory API after kg_initialize_database: any sequence of tool calls
MemInit ==
    /\ sim \in {ApiSimTable(sc, sk) : sc \in ContentSims, sk \in CategorySims}
    /\ NeoIdle
    /\ lastCall = NoCall
    /\ MemIdle
    /\ OtherIdle

MemNext ==
    \/ \E content \in Values, category \in Categories : AddFact(content, category)
    \/ \E instruction \in Values : AddPreference(instruction)
    \/ \E item_id \in 1..MaxNodeId, new_value \in Values :
          UpdateFactOrPreference(item_id, new_value)
    \/ \E item_id \in 1..MaxNodeId : DeleteMemory(item_id)

SpecMem == MemInit /\ [][MemNext]_vars

\* ------------------------------------------------------------------------
\* add_event (tools/memory.py:191-213) over Event (graph_models.py:85-101)
\* ------------------------------------------------------------------------
PersonJan == [label |-> "Person", key |-> "Jan", category |-> "", emb |-> << >>]

PersonOliwka == [label |-> "Person", key |-> "Oliwka", category |-> "", emb |-> << >>]

Descriptions == {"Trip to Krakow"}

Dates == {"2024-03-15", "2024-03-16"}

\* the date argument: a date, or None
DateArgs == Dates \cup {"None"}

\* datetime.now().date().isoformat() on the day of the call
Today == "2024-03-16"

ParticipantLists == {<< >>, <<"Jan">>, <<"Jan", "Oliwka">>, <<"Nobody">>}

MentionedLists == {<< >>, <<"Oliwka">>}

\* Event._merge_key: {"date": date, "description": description}
EventKey(date, description) == <<date, description>>

\* Event.embedding_text: description and date joined
EventText(description, date) == <<description, date>>

\* MATCH (e:Event {description: $desc}): the Events an edge query of add_event matches
EventsDescribed(ns, description) ==
    {e \in DOMAIN ns : ns[e].label = "Event" /\ ns[e].key[2] = description}

\* MATCH (p:Person {name: $name})
PersonsCalled(ns, name) == {p \in DOMAIN ns : ns[p].label = "Person" /\ ns[p].key = name}

\* the edges that start or end at node n
EdgesAt(es, n) == {e \in es : e[1] = n \/ e[3] = n}

\* add_event: save the Event, then one MERGE per participant and per mentioned
\* person
AddEvent(description, participants, mentioned_people, date_arg) ==
    LET date == IF date_arg = "None" THEN Today ELSE date_arg
        saved == Save("Event", EventKey(date, description), "", EventText(description, date))
        events == EventsDescribed(saved, description)
    IN
    /\ nodes' = saved
    /\ nextNode' = IF DOMAIN saved = NodeIds THEN nextNode ELSE nextNode + 1
    /\ edges' = edges
                 \cup {<<p, "PARTICIPATED_IN", e>> :
                          p \in UNION {PersonsCalled(saved, participants[i]) :
                                          i \in DOMAIN participants},
                          e \in events}
                 \cup {<<e, "MENTIONS", p>> :
                          e \in events,
                          p \in UNION {PersonsCalled(saved, mentioned_people[i]) :
                                          i \in DOMAIN mentioned_people}}
    /\ lastCall' = [op |-> "add_event", description |-> description, date |-> date,
                    arg |-> <<participants, mentioned_people, date_arg>>]
    /\ UNCHANGED <<sim, persons, mems, hasMemory, links, nextEid, nextMid, otherVars>>

\* the typed graph after kg_initialize_database and add_person for two people
EventInit ==
    /\ nodes = <<UserNode, PersonJan, PersonOliwka>>
    /\ edges = {<<1, "KNOWS", 2>>, <<1, "KNOWS", 3>>}
    /\ nextNode = 4
    /\ sim = << >>
    /\ lastCall = NoCall
    /\ NeoIdle
    /\ OtherIdle

EventNext ==
    \E description \in Descriptions, participants \in ParticipantLists,
       mentioned_people \in MentionedLists, date_arg \in DateArgs :
        AddEvent(description, participants, mentioned_people, date_arg)

SpecEvent == EventInit /\ [][EventNext]_vars

\* ------------------------------------------------------------------------
\* The query texts sent to the graph store by list_memories
\* (routers/memories.py:29-61) and retrieve_context (tools/memory.py:48-131).
\* A query is [text, params]: text is the sequence of the pieces the query
\* string is put together from, params the names of the bound parameters.
\* What the store answers, and the text the handlers build from the answer,
\* are outside the model.
\* ------------------------------------------------------------------------
AgentNode(name) == [label |-> "Agent", key |-> name, category |-> "", emb |-> << >>]

AgentNames == {"main", "ghost"}

\* type_filter values; "" stands for an absent (None) or empty filter
TypeFilters == {"", "Fact", "Person", "Fact' OR '1'='1"}

NodeLabelLists == {<< >>, <<"Person">>, <<"Fact">>, <<"Fact", "Event">>,
                   <<"Fact', 1, $embedding) YIELD node DETACH DELETE node //">>}

EntityNameLists == {<< >>, <<"Oliwka">>}

SearchTexts == {"hobbies", "family members"}

\* Agent.get (graph_models.py:296-300)
AgentGetQuery == [text |-> <<"MATCH (a:Agent {name: $name}) RETURN a">>, params |-> {"name"}]

\* the query list_memories builds (routers/memories.py:39-57)
ListMemoriesQuery(type_filter) ==
    [text |-> <<"MATCH (a:Agent {name: $agent_name}) MATCH (a)-[:HAS_...]->(n)">>
              \o (IF type_filter # ""
                  THEN <<" WHERE labels(n)[0] = '", type_filter, "'">> ELSE << >>)
              \o <<" RETURN labels(n)[0] as type, ... SKIP $skip LIMIT $limit">>,
     params |-> {"agent_name", "skip", "limit"}]

\* the query retrieve_context sends for one label (tools/memory.py:85-120)
LabelQuery(label) ==
    [text |-> <<"CALL db.index.vector.queryNodes('embedding_index_", label,
                "', $limit, $embedding) YIELD node, score ">>
              \o (CASE label = "Person" ->
                         <<"OPTIONAL MATCH (u:User)-[k:KNOWS]->(node) RETURN node, score, k, id">>
                    [] label = "Event" ->
                         <<"OPTIONAL MATCH (p:Person)-[:PARTICIPATED_IN]->(node) ",
                           "RETURN node, score, participants, id">>
                    [] OTHER -> <<"RETURN node, score, id">>),
     params |-> {"limit", "embedding"}]

\* the queries of one retrieve_context call
RetrieveContextQueries(entity_names, node_labels) ==
    IF entity_names # << >>
    THEN <<[text |-> <<"MATCH (p:Person) WHERE p.name IN $names ... RETURN p, k, events, id">>,
            params |-> {"names"}]>>
    ELSE LET labels == IF node_labels # << >> THEN node_labels
                       ELSE <<"Person", "Event", "Fact", "Preference">>
         IN [i \in DOMAIN labels |-> LabelQuery(labels[i])]

\* verify_agent, then the one query of the listing
ListMemories(agent_name, skip, limit, type_filter) ==
    /\ lastCall' =
          [op |-> "list_memories",
           arg |-> [agent_name |-> agent_name, skip |-> skip, limit |-> limit,
                    type_filter |-> type_filter],
           sent |-> IF \E n \in NodeIds : nodes[n] = AgentNode(agent_name)
                    THEN <<AgentGetQuery, ListMemoriesQuery(type_filter)>>
                    ELSE <<AgentGetQuery>>,
           status |-> IF \E n \in NodeIds : nodes[n] = AgentNode(agent_name)
                      THEN 200 ELSE 404]
    /\ UNCHANGED <<sim, persons, mems, hasMemory, links, nextEid, nextMid, memVars, otherVars>>

RetrieveContext(query, entity_names, node_labels, limit) ==
    /\ lastCall' =
          [op |-> "retrieve_context",
           arg |-> [query |-> query, entity_names |-> entity_names,
                    node_labels |-> node_labels, limit |-> limit],
           sent |-> RetrieveContextQueries(entity_names, node_labels),
           status |-> 200]
    /\ UNCHANGED <<sim, persons, mems, hasMemory, links, nextEid, nextMid, memVars, otherVars>>

QueryInit ==
    /\ sim = ApiSimTable(50, 50)
    /\ NeoIdle
    /\ lastCall = NoCall
    /\ nodes \in {<<UserNode>>, <<UserNode, AgentNode("main")>>}
    /\ edges = {}
    /\ nextNode = Len(nodes) + 1
    /\ OtherIdle

QueryNext ==
    \/ \E agent_name \in AgentNames, skip \in {0, 50}, limit \in {10, 50},
          type_filter \in TypeFilters :
          ListMemories(agent_name, skip, limit, type_filter)
    \/ \E query \in SearchTexts, entity_names \in EntityNameLists,
          node_labels \in NodeLabelLists, limit \in {5, 10} :
          RetrieveContext(query, entity_names, node_labels, limit)

SpecQuery == QueryInit /\ [][QueryNext]_vars

\* ------------------------------------------------------------------------
\* The context manager (context_manager.py).  A text is modelled by its
\* length in characters, a message by [role, content, ix]: content is the
\* sequence of its text parts (one part for a plain string), ix its position
\* in the list handed to process (0 for the injected summary message).
\* ------------------------------------------------------------------------
\* the most conversation messages (after the system message) in a list
MaxMsgs == 4

\* len("[CONVERSATION SUMMARY - Earlier messages have been summarized]\n")
SummaryHeaderLen == 63

\* len("Previous conversation context not available.")
FallbackSummaryLen == 44

SystemContents == {<<40>>, <<240>>}

MessageContents == {<<3>>, <<40>>, <<100>>, <<18, 18>>}

MaxContextTokens == {40, 60}

WindowTokens == {10, 20}

ExistingSummaries == {0, 30}

\* what the summary model answers, after strip()
GeneratedSummaries == {0, 17, 140}

estimate_tokens(text) == IF text = 0 THEN 0 ELSE text \div 4

RECURSIVE SumParts(_)
SumParts(content) ==
    IF content = << >> THEN 0
    ELSE estimate_tokens(Head(content)) + SumParts(Tail(content))

RECURSIVE count_message_tokens(_)
count_message_tokens(messages) ==
    IF messages = << >> THEN 0
    ELSE SumParts(Head(messages).content) + count_message_tokens(Tail(messages))

SummaryMessage(summary) ==
    [role |-> "system", content |-> <<SummaryHeaderLen + summary>>, ix |-> 0]

InjectSummary(messages, summary) ==
    IF summary = 0 \/ messages = << >> THEN messages
    ELSE IF messages[1].role = "system"
         THEN <<messages[1], SummaryMessage(summary)>> \o Tail(messages)
         ELSE <<SummaryMessage(summary)>> \o messages

\* the walk from the end of the conversation: how many messages the window keeps
RECURSIVE WindowLen(_, _, _, _)
WindowLen(conversation_msgs, limit, taken, window_tokens) ==
    IF taken = Len(conversation_msgs) THEN taken
    ELSE LET msg == conversation_msgs[Len(conversation_msgs) - taken]
             msg_tokens == count_message_tokens(<<msg>>)
         IN IF window_tokens + msg_tokens > limit THEN taken
            ELSE WindowLen(conversation_msgs, limit, taken + 1, window_tokens + msg_tokens)

\* a window that keeps no conversation message
WindowKeepNone(conversation_msgs, limit) == 0

\* a window that keeps every conversation message
WindowKeepAll(conversation_msgs, limit) == Len(conversation_msgs)

\* the number of trailing messages kept for a window of `limit` tokens
Window(conversation_msgs, limit) == WindowLen(conversation_msgs, limit, 0, 0)

\* _generate_summary: the summarising model is called; its answer, or the
\* fallback when the call raises
GenerateSummary(existing_summary, raised, answer) ==
    IF raised
    THEN (IF existing_summary # 0 THEN existing_summary ELSE FallbackSummaryLen)
    ELSE answer

NoEvent == [type |-> "none"]

ProcessResult(self, messages, existing_summary, raised, answer) ==
    LET unchanged == [called |-> TRUE, llm |-> FALSE, messages |-> messages,
                      event |-> NoEvent]
        injected  == [called |-> TRUE, llm |-> FALSE,
                      messages |-> InjectSummary(messages, existing_summary),
                      event |-> NoEvent]
    IN
    IF ~self.enabled THEN unchanged
    ELSE IF Len(messages) < 3 THEN unchanged
    ELSE LET total_tokens == count_message_tokens(messages) IN
    IF total_tokens <= self.max_context_tokens THEN injected
    ELSE LET system_msg == messages[1]
             conversation_msgs == Tail(messages)
             kept == Window(conversation_msgs, self.window_tokens)
             window_msgs == SubSeq(conversation_msgs,
                                   Len(conversation_msgs) - kept + 1, Len(conversation_msgs))
             msgs_to_summarize == SubSeq(conversation_msgs, 1, Len(conversation_msgs) - kept)
         IN
    IF msgs_to_summarize = << >> THEN injected
    ELSE LET new_summary == GenerateSummary(existing_summary, raised, answer)
             compressed == InjectSummary(<<system_msg>> \o window_msgs, new_summary)
         IN [called |-> TRUE, llm |-> TRUE,
             messages |-> compressed,
             event |-> [type |-> "summary_generated",
                        summary |-> new_summary,
                        messages_summarized |-> Len(msgs_to_summarize),
                        tokens_before |-> total_tokens,
                        tokens_after |-> count_message_tokens(compressed)]]

\* the conversation grows by one message before it is handed to process
AddMessage(content) ==
    /\ Len(ctxMessages) < MaxMsgs + 1
    /\ ctxMessages' = Append(ctxMessages,
                             [role |-> IF Len(ctxMessages) % 2 = 1 THEN "human" ELSE "ai",
                              content |-> content,
                              ix |-> Len(ctxMessages) + 1])
    /\ ctxResult' = [called |-> FALSE]
    /\ UNCHANGED <<ctxManager, ctxSummary, neoVars, memVars, agentVars, turnVars,
                   sessVars>>

Process(raised, answer) ==
    /\ ~ctxResult.called
    /\ ctxResult' = ProcessResult(ctxManager, ctxMessages, ctxSummary, raised, answer)
    /\ UNCHANGED <<ctxManager, ctxMessages, ctxSummary, neoVars, memVars, agentVars, turnVars,
                   sessVars>>

CtxInit ==
    /\ ctxManager \in [enabled : BOOLEAN, max_context_tokens : MaxContextTokens,
                       window_tokens : WindowTokens]
    /\ \E content \in SystemContents :
          ctxMessages = <<[role |-> "system", content |-> content, ix |-> 1]>>
    /\ ctxSummary \in ExistingSummaries
    /\ ctxResult = [called |-> FALSE]
    /\ sim = << >>
    /\ lastCall = NoCall
    /\ NeoIdle
    /\ MemIdle
    /\ AgentIdle
    /\ TurnIdle
    /\ SessIdle

CtxNext ==
    \/ \E content \in MessageContents : AddMessage(content)
    \/ \E raised \in BOOLEAN, answer \in GeneratedSummaries : Process(raised, answer)

SpecCtx == CtxInit /\ [][CtxNext]_vars

\* ------------------------------------------------------------------------
\* The SSE event generator (routers/chat.py): what each chunk of
\* stream_response becomes on the turn's event stream.
\* ------------------------------------------------------------------------
Chunk(type, name, id) == [type |-> type, name |-> name, run_id |-> id, tool_id |-> id]

SseEvent(kind, status, name, tool_id) ==
    [kind |-> kind, status |-> status, name |-> name, tool_id |-> tool_id]

\* an event generator without the tool_denied branch
EventGeneratorNoDenied(chunk) ==
    CASE chunk.type = "memory_search_start" -> <<SseEvent("memory", "started", "", 0)>>
      [] chunk.type = "memory_search_end" -> <<SseEvent("memory", "completed", "", 0)>>
      [] chunk.type = "thinking" -> <<SseEvent("thinking", "", "", 0)>>
      [] chunk.type = "content" -> <<SseEvent("content", "", "", 0)>>
      [] chunk.type = "tool_start" ->
            <<SseEvent("tool_call", "started", chunk.name, chunk.run_id)>>
      [] chunk.type = "tool_end" ->
            <<SseEvent("tool_call", "completed", chunk.name, chunk.run_id)>>
      [] chunk.type = "tool_confirmation_required" ->
            <<SseEvent("tool_call", "pending_confirmation", chunk.name, chunk.tool_id)>>
      [] chunk.type = "memories_saved" -> <<SseEvent("memories_saved", "", "", 0)>>
      [] chunk.type = "metadata" -> <<SseEvent("metadata", "", "", 0)>>
      [] chunk.type = "error" -> <<SseEvent("content", "", "", 0)>>
      [] OTHER -> << >>

\* an event generator whose tool_start and tool_end branches are exchanged
EventGeneratorSwapped(chunk) ==
    CASE chunk.type = "memory_search_start" -> <<SseEvent("memory", "started", "", 0)>>
      [] chunk.type = "memory_search_end" -> <<SseEvent("memory", "completed", "", 0)>>
      [] chunk.type = "thinking" -> <<SseEvent("thinking", "", "", 0)>>
      [] chunk.type = "content" -> <<SseEvent("content", "", "", 0)>>
      [] chunk.type = "tool_start" ->
            <<SseEvent("tool_call", "completed", chunk.name, chunk.run_id)>>
      [] chunk.type = "tool_end" ->
            <<SseEvent("tool_call", "started", chunk.name, chunk.run_id)>>
      [] chunk.type = "error" -> <<SseEvent("content", "", "", 0)>>
      [] OTHER -> << >>

\* the if/elif chain of event_generator, one branch per chunk type
EventGenerator(chunk) ==
    CASE chunk.type = "memory_search_start" -> <<SseEvent("memory", "started", "", 0)>>
      [] chunk.type = "memory_search_end" -> <<SseEvent("memory", "completed", "", 0)>>
      [] chunk.type = "thinking" -> <<SseEvent("thinking", "", "", 0)>>
      [] chunk.type = "content" -> <<SseEvent("content", "", "", 0)>>
      [] chunk.type = "tool_start" ->
            <<SseEvent("tool_call", "started", chunk.name, chunk.run_id)>>
      [] chunk.type = "tool_end" ->
            <<SseEvent("tool_call", "completed", chunk.name, chunk.run_id)>>
      [] chunk.type = "tool_confirmation_required" ->
            <<SseEvent("tool_call", "pending_confirmation", chunk.name, chunk.tool_id)>>
      [] chunk.type = "tool_denied" ->
            <<SseEvent("tool_call", "denied", chunk.name, chunk.tool_id)>>
      [] chunk.type = "memories_saved" -> <<SseEvent("memories_saved", "", "", 0)>>
      [] chunk.type = "metadata" -> <<SseEvent("metadata", "", "", 0)>>
      [] chunk.type = "error" -> <<SseEvent("content", "", "", 0)>>
      [] OTHER -> << >>

RECURSIVE Events(_)
Events(chunks) ==
    IF chunks = << >> THEN << >>
    ELSE EventGenerator(Head(chunks)) \o Events(Tail(chunks))

\* the generator ran to its end: line 107
Done == SseEvent("done", "", "", 0)

\* the except branch: line 110
StreamError == SseEvent("error", "", "", 0)

\* ------------------------------------------------------------------------
\* One turn of ConversationManager.stream_response (agent.py) behind
\* chat_stream: the compiled model/tools graph is run by astream_events and
\* then once more by ainvoke.
\* ------------------------------------------------------------------------
\* the largest max_tool_runs setting
MaxToolRuns == 2

ToolNames == {"add_fact", "read_file"}

\* self.messages before the turn: a new conversation, a short one, a long one
ShortHistory == <<"system", "human", "ai">>

LongHistory == <<"system", "human", "ai", "human", "ai", "human", "ai", "human", "ai",
                 "human", "ai", "human", "ai", "human", "ai">>

Histories == {<< >>, ShortHistory, LongHistory}

\* history length above which a stored summary replaces the older messages
CompactAbove == 15

\* messages kept after the summary
KeepRecent == 6

\* config = {"recursion_limit": self.max_tool_runs * 2 + 1}
RecursionLimit(n) == n * 2 + 1

\* agent.astream_events / agent.ainvoke entered with {"messages": self.messages}
StartGraph(msgs) == [node |-> "model", step |-> 0, messages |-> msgs]

InGraph == pc \in {"astream_events", "ainvoke"}

\* the exception leaves stream_response; event_generator's except branch
\* yields the error event and the stream closes
Raise ==
    /\ pc' = "closed"
    /\ graph' = NoGraph
    /\ sse' = Append(sse, StreamError)

\* chat_stream: event_generator starts stream_response, which announces the
\* memory search
ChatStream ==
    /\ pc = "idle"
    /\ pc' = "get_memories"
    /\ sse' = Events(<<Chunk("memory_search_start", "", 0)>>)
    /\ UNCHANGED <<max_tool_runs, selfMessages, conversation_summary, graph, llmCalls,
                   toolRuns, nextRunId>>
    /\ UNCHANGED outsideAgent

\* lines 236-268: the memory search, the system prompt, the user message and
\* the compaction of a long history
GetMemories(raised) ==
    /\ pc = "get_memories"
    /\ IF raised
       THEN /\ Raise
            /\ UNCHANGED selfMessages
       ELSE LET with_system == IF selfMessages = << >> THEN <<"system">> ELSE selfMessages
                with_user == Append(with_system, "human")
                compacted ==
                    IF conversation_summary /\ Len(with_user) > CompactAbove
                    THEN <<with_user[1], "system">>
                            \o SubSeq(with_user, Len(with_user) - KeepRecent + 1, Len(with_user))
                    ELSE with_user
            IN /\ selfMessages' = compacted
               /\ pc' = "astream_events"
               /\ graph' = StartGraph(compacted)
               /\ sse' = sse \o Events(<<Chunk("memory_search_end", "", 0)>>)
    /\ UNCHANGED <<max_tool_runs, conversation_summary, llmCalls, toolRuns, nextRunId>>
    /\ UNCHANGED outsideAgent

\* the "model" node: one LLM call.  It streams its reasoning and then answers
\* with text or asks for a tool, or it raises.
CallModel(answer, raised) ==
    /\ InGraph
    /\ graph.node = "model"
    /\ graph.step < RecursionLimit(max_tool_runs)
    /\ llmCalls' = llmCalls + 1
    /\ IF raised
       THEN Raise
       ELSE /\ graph' = [node |-> IF answer = "tool_calls" THEN "tools" ELSE "end",
                         step |-> graph.step + 1,
                         messages |-> Append(graph.messages,
                                             IF answer = "tool_calls" THEN "ai_tool_calls"
                                             ELSE "ai")]
            /\ sse' = IF pc = "astream_events"
                      THEN sse \o Events(<<Chunk("thinking", "", 0)>>
                                           \o (IF answer = "content"
                                               THEN <<Chunk("content", "", 0)>> ELSE << >>))
                      ELSE sse
            /\ UNCHANGED pc
    /\ UNCHANGED <<max_tool_runs, selfMessages, conversation_summary, toolRuns, nextRunId>>
    /\ UNCHANGED outsideAgent

\* the "tools" node (ToolNode): the tool of the last AI message is invoked; a
\* tool that raises gives an error ToolMessage and no on_tool_end event
RunTools(name, failed) ==
    /\ InGraph
    /\ graph.node = "tools"
    /\ graph.step < RecursionLimit(max_tool_runs)
    /\ toolRuns' = toolRuns + 1
    /\ nextRunId' = nextRunId + 1
    /\ graph' = [node |-> "model", step |-> graph.step + 1,
                 messages |-> Append(graph.messages, "tool")]
    /\ sse' = IF pc = "astream_events"
              THEN sse \o Events(<<Chunk("tool_start", name, nextRunId)>>
                                   \o (IF failed THEN << >>
                                       ELSE <<Chunk("tool_end", name, nextRunId)>>))
              ELSE sse
    /\ UNCHANGED <<max_tool_runs, selfMessages, conversation_summary, pc, llmCalls>>
    /\ UNCHANGED outsideAgent

\* recursion_limit supersteps are used up and a node is still to run: the
\* graph raises GraphRecursionError
RecursionError ==
    /\ InGraph
    /\ graph.node \in {"model", "tools"}
    /\ graph.step >= RecursionLimit(max_tool_runs)
    /\ Raise
    /\ UNCHANGED <<max_tool_runs, selfMessages, conversation_summary, llmCalls, toolRuns,
                   nextRunId>>
    /\ UNCHANGED outsideAgent

\* astream_events is exhausted: line 307 runs the graph again from self.messages
AInvoke ==
    /\ pc = "astream_events"
    /\ graph.node = "end"
    /\ pc' = "ainvoke"
    /\ graph' = StartGraph(selfMessages)
    /\ UNCHANGED <<max_tool_runs, selfMessages, conversation_summary, llmCalls, toolRuns,
                   nextRunId, sse>>
    /\ UNCHANGED outsideAgent

\* ainvoke returned: lines 308-311, then event_generator's line 107
Return ==
    /\ pc = "ainvoke"
    /\ graph.node = "end"
    /\ selfMessages' = IF graph.messages[Len(graph.messages)] = "ai"
                   THEN graph.messages ELSE selfMessages
    /\ pc' = "closed"
    /\ graph' = NoGraph
    /\ sse' = Append(sse, Done)
    /\ UNCHANGED <<max_tool_runs, conversation_summary, llmCalls, toolRuns, nextRunId>>
    /\ UNCHANGED outsideAgent

AgentInit ==
    /\ max_tool_runs \in 1..MaxToolRuns
    /\ selfMessages \in Histories
    /\ conversation_summary \in BOOLEAN
    /\ pc = "idle"
    /\ graph = NoGraph
    /\ llmCalls = 0
    /\ toolRuns = 0
    /\ nextRunId = 1
    /\ sse = << >>
    /\ sim = << >>
    /\ lastCall = NoCall
    /\ NeoIdle
    /\ MemIdle
    /\ CtxIdle
    /\ TurnIdle
    /\ SessIdle

AgentNext ==
    \/ ChatStream
    \/ \E raised \in BOOLEAN : GetMemories(raised)
    \/ \E answer \in {"content", "tool_calls"}, raised \in BOOLEAN : CallModel(answer, raised)
    \/ \E name \in ToolNames, failed \in BOOLEAN : RunTools(name, failed)
    \/ RecursionError
    \/ AInvoke
    \/ Return

SpecAgent == AgentInit /\ [][AgentNext]_vars

\* ------------------------------------------------------------------------
\* The system prompt over the turns of one conversation (agent.py:221-311).
\* A message content is the sequence of its paragraphs.
\* ------------------------------------------------------------------------
\* the largest number of turns of one conversation
MaxTurns == 3

\* the memories mem0 can return for a query
StoredMemories == {"likes tea", "has a dog"}

\* the results of self.memory.search, in order
MemoryLists == {<< >>, <<"likes tea">>, <<"has a dog">>, <<"has a dog", "likes tea">>}

\* what the graph appended to the message list in the run that ainvoke returned
GraphAppends == {<<"ai">>, <<"ai_tool_calls", "tool", "ai">>, <<"ai_tool_calls", "tool">>}

MemoriesHeader == "Existing memories (use id to update):"

MemoriesMarker == "Relevant memories"

\* get_memories: "" when nothing is found, else the header and one line per memory
GetMemoriesText(memories_list) ==
    IF memories_list = << >> THEN << >> ELSE <<MemoriesHeader>> \o memories_list

\* SYSTEM_PROMPT.format(datetime=..., memories=memories_text)
FormatPrompt(memories_text) ==
    <<"You are a helpful AI assistant.">> \o memories_text \o <<"Be concise and helpful.">>

\* content.split(marker)[0]: what precedes the first occurrence of the marker
RECURSIVE SplitHead(_, _)
SplitHead(content, marker) ==
    IF content = << >> \/ Head(content) = marker THEN << >>
    ELSE <<Head(content)>> \o SplitHead(Tail(content), marker)

PromptMessage(role, content) == [role |-> role, content |-> content]

\* lines 241-254: message 0 after the memory search
SystemMessageAfter(messages, memories_text) ==
    IF messages = << >>
    THEN <<PromptMessage("system", FormatPrompt(memories_text))>>
    ELSE IF memories_text # << >>
    THEN [messages EXCEPT ![1] =
             PromptMessage("system", SplitHead(messages[1].content, MemoriesMarker)
                                        \o memories_text)]
    ELSE messages

\* the turns run so far
TurnsRun == IF lastCall.op = "stream_response" THEN lastCall.turn ELSE 0

\* one whole stream_response: the memory search, message 0, the user message,
\* the compaction of a long history, the two runs of the graph and the
\* assignment of the final state
StreamResponse(memories_list, appended, raised) ==
    LET with_system == SystemMessageAfter(selfMessages, GetMemoriesText(memories_list))
        with_user == Append(with_system, PromptMessage("human", <<"user_input">>))
        compacted ==
            IF conversation_summary /\ Len(with_user) > CompactAbove
            THEN <<with_user[1], PromptMessage("system", <<"summary">>)>>
                    \o SubSeq(with_user, Len(with_user) - KeepRecent + 1, Len(with_user))
            ELSE with_user
        final == compacted \o [i \in DOMAIN appended |-> PromptMessage(appended[i], << >>)]
    IN
    /\ TurnsRun < MaxTurns
    /\ selfMessages' = IF raised THEN compacted
                       ELSE IF appended[Len(appended)] = "ai" THEN final ELSE compacted
    /\ lastCall' = [op |-> "stream_response", turn |-> TurnsRun + 1,
                    memories |-> memories_list, arg |-> <<appended, raised>>]
    /\ UNCHANGED <<max_tool_runs, conversation_summary, pc, graph, llmCalls, toolRuns,
                   nextRunId, sse>>
    /\ UNCHANGED <<sim, persons, mems, hasMemory, links, nextEid, nextMid, memVars, ctxVars,
                   turnVars, sessVars>>

PromptInit ==
    /\ max_tool_runs = 0
    /\ selfMessages = << >>
    /\ conversation_summary \in BOOLEAN
    /\ pc = "none"
    /\ graph = NoGraph
    /\ llmCalls = 0
    /\ toolRuns = 0
    /\ nextRunId = 1
    /\ sse = << >>
    /\ sim = << >>
    /\ lastCall = NoCall
    /\ NeoIdle
    /\ MemIdle
    /\ CtxIdle
    /\ TurnIdle
    /\ SessIdle

PromptNext ==
    \E memories_list \in MemoryLists, appended \in GraphAppends, raised \in BOOLEAN :
        StreamResponse(memories_list, appended, raised)

SpecPrompt == PromptInit /\ [][PromptNext]_vars

\* ------------------------------------------------------------------------
\* The turn engine with the confirmation broker.  routers/chat.py imports
\* set_confirmation_result from app.agent and forwards the chunks
\* tool_confirmation_required and tool_denied; the engine that yields them
\* and the broker are modelled from the specification (sections 4.7, 4.9).
\* The tools the engine invokes are those of tools/memory.py.
\* ------------------------------------------------------------------------
\* the most tool calls one assistant message carries
MaxCalls == 2

\* the most tool calls the model makes in one turn
MaxTurnCalls == 3

\* tool names, split where a prefix ends
NameDeleteMemory == <<"delete_", "memory">>

NameAddFact == <<"add_", "fact">>

NameRetrieveContext == <<"retrieve_", "context">>

TurnTools == {NameDeleteMemory, NameAddFact, NameRetrieveContext}

\* requires_confirmation(tool_name): the name contains "add_", "update_" or "delete_"
requires_confirmation(tool_name) ==
    \E i \in DOMAIN tool_name : tool_name[i] \in {"add_", "update_", "delete_"}

\* the tool calls one assistant message may carry
CallLists == UNION {[1..n -> TurnTools] : n \in 1..MaxCalls}

\* the Fact the store holds when the turn starts
StoredFact == [label |-> "Fact", key |-> ValueTesla, category |-> "possession",
               emb |-> FactText(ValueTesla, "possession")]

Message(role, tool_call_id, content) ==
    [role |-> role, tool_call_id |-> tool_call_id, content |-> content]

DenialMarker == "DENIED"

\* the tool-call ids of an assistant message with n calls
Ids(n) == [i \in 1..n |-> nextRunId + i - 1]

\* the tool behind a call, with the arguments the model gives it
Invoke(name, failed) ==
    IF failed THEN UNCHANGED <<nodes, edges, nextNode, lastCall>>
    ELSE IF name = NameDeleteMemory THEN delete_memory(2)
    ELSE IF name = NameAddFact THEN add_fact(ValueATesla, "possession")
    ELSE UNCHANGED <<nodes, edges, nextNode, lastCall>>

NoInvoke == UNCHANGED <<nodes, edges, nextNode, lastCall>>

\* steps 1-5: memory search and the working message list
StreamTurn ==
    /\ pc = "idle"
    /\ pc' = "llm"
    /\ sse' = Events(<<Chunk("memory_search_start", "", 0), Chunk("memory_search_end", "", 0)>>)
    /\ selfMessages' = <<Message("system", 0, ""), Message("human", 0, "")>>
    /\ NoInvoke
    /\ UNCHANGED <<llmCalls, toolRuns, nextRunId, turnVars, outsideTurn>>

\* step 6: one llm.stream call that answers with text or fails
LlmAnswer(raised) ==
    /\ pc = "llm"
    /\ iterations < max_tool_runs
    /\ llmCalls' = llmCalls + 1
    /\ pc' = "finish"
    /\ IF raised
       THEN /\ sse' = sse \o Events(<<Chunk("error", "", 0)>>)
            /\ UNCHANGED selfMessages
       ELSE /\ sse' = sse \o Events(<<Chunk("thinking", "", 0), Chunk("content", "", 0)>>)
            /\ selfMessages' = Append(selfMessages, Message("ai", 0, ""))
    /\ NoInvoke
    /\ UNCHANGED <<toolRuns, nextRunId, turnVars, outsideTurn>>

\* step 6: one llm.stream call that answers with tool calls; each is
\* registered and announced by tool_start
LlmToolCalls(names) ==
    /\ pc = "llm"
    /\ iterations < max_tool_runs
    /\ nextRunId + Len(names) - 1 <= MaxTurnCalls
    /\ llmCalls' = llmCalls + 1
    /\ pc' = "tools"
    /\ pending_tool_calls' = [i \in DOMAIN names |-> [id |-> Ids(Len(names))[i], name |-> names[i]]]
    /\ nextRunId' = nextRunId + Len(names)
    /\ sse' = sse \o Events([i \in DOMAIN names |->
                               Chunk("tool_start", names[i], Ids(Len(names))[i])])
    /\ selfMessages' = Append(selfMessages, Message("ai", 0, "tool_calls"))
    /\ NoInvoke
    /\ UNCHANGED <<toolRuns, iterations, pending, results, posted, invoked, outsideTurn>>

\* step 6b: the next call needs confirmation; the engine creates the pending
\* entry, announces it and suspends on the signal
AwaitConfirmation ==
    /\ pc = "tools"
    /\ pending_tool_calls # << >>
    /\ requires_confirmation(Head(pending_tool_calls).name)
    /\ LET call == Head(pending_tool_calls) IN
       /\ pending' = (call.id :> FALSE) @@ pending
       /\ sse' = sse \o Events(<<Chunk("tool_confirmation_required", call.name, call.id)>>)
    /\ pc' = "awaiting"
    /\ NoInvoke
    /\ UNCHANGED <<selfMessages, llmCalls, toolRuns, nextRunId, iterations,
                   pending_tool_calls, results, posted, invoked, outsideTurn>>

\* set_confirmation_result(id, approved): writes the boolean and releases
\* the signal
set_confirmation_result(tool_id, approved) ==
    /\ results' = (tool_id :> approved) @@ results
    /\ pending' = IF tool_id \in DOMAIN pending
                  THEN [pending EXCEPT ![tool_id] = TRUE] ELSE pending

\* the ids the stream has asked the client to confirm
Announced == {sse[i].tool_id : i \in {j \in DOMAIN sse : sse[j].status = "pending_confirmation"}}

\* a confirmation endpoint that approves whatever was posted
ConfirmToolApproves(tool_id, approved) ==
    /\ tool_id \in Announced
    /\ \A a \in BOOLEAN : <<tool_id, a>> \notin posted
    /\ posted' = posted \cup {<<tool_id, approved>>}
    /\ set_confirmation_result(tool_id, TRUE)
    /\ NoInvoke
    /\ UNCHANGED <<selfMessages, pc, llmCalls, toolRuns, nextRunId, sse, iterations,
                   pending_tool_calls, invoked, outsideTurn>>

\* POST /chat/confirm (chat.py:121-125): the client answers, once, a
\* confirmation the stream has asked for
ConfirmTool(tool_id, approved) ==
    /\ tool_id \in Announced
    /\ \A a \in BOOLEAN : <<tool_id, a>> \notin posted
    /\ posted' = posted \cup {<<tool_id, approved>>}
    /\ set_confirmation_result(tool_id, approved)
    /\ NoInvoke
    /\ UNCHANGED <<selfMessages, pc, llmCalls, toolRuns, nextRunId, sse, iterations,
                   pending_tool_calls, invoked, outsideTurn>>

Without(f, k) == [x \in DOMAIN f \ {k} |-> f[x]]

\* the tool of the head call has run (or was refused): its event and its
\* tool-result message
Completed(call, type, output) ==
    /\ sse' = sse \o Events(<<Chunk(type, call.name, call.id)>>)
    /\ selfMessages' = Append(selfMessages, Message("tool", call.id, output))
    /\ pending_tool_calls' = Tail(pending_tool_calls)
    /\ pc' = "tools"

\* step 6b, after the signal: the engine reads and removes both entries, then
\* runs the tool or records the denial marker
Resume(failed) ==
    /\ pc = "awaiting"
    /\ LET call == Head(pending_tool_calls) IN
       /\ pending[call.id]
       /\ pending' = Without(pending, call.id)
       /\ results' = Without(results, call.id)
       /\ IF results[call.id]
          THEN /\ Invoke(call.name, failed)
               /\ invoked' = invoked \cup {call}
               /\ toolRuns' = toolRuns + 1
               /\ Completed(call, "tool_end", IF failed THEN "error" ELSE "output")
          ELSE /\ ~failed
               /\ NoInvoke
               /\ UNCHANGED <<invoked, toolRuns>>
               /\ Completed(call, "tool_denied", DenialMarker)
    /\ UNCHANGED <<llmCalls, nextRunId, iterations, posted, outsideTurn>>

\* step 6c: a call that needs no confirmation is invoked at once
InvokeTool(failed) ==
    /\ pc = "tools"
    /\ pending_tool_calls # << >>
    /\ ~requires_confirmation(Head(pending_tool_calls).name)
    /\ LET call == Head(pending_tool_calls) IN
       /\ Invoke(call.name, failed)
       /\ invoked' = invoked \cup {call}
       /\ Completed(call, "tool_end", IF failed THEN "error" ELSE "output")
    /\ toolRuns' = toolRuns + 1
    /\ UNCHANGED <<llmCalls, nextRunId, iterations, pending, results, posted, outsideTurn>>

\* every call of the assistant message is answered: the iteration counter
\* goes up and the model is called again
EndIteration ==
    /\ pc = "tools"
    /\ pending_tool_calls = << >>
    /\ iterations' = iterations + 1
    /\ pc' = "llm"
    /\ NoInvoke
    /\ UNCHANGED <<selfMessages, llmCalls, toolRuns, nextRunId, sse, pending_tool_calls,
                   pending, results, posted, invoked, outsideTurn>>

\* step 7: metadata and done; event_generator then yields its own done
\* (chat.py:107)
Finish ==
    /\ \/ pc = "finish"
       \/ pc = "llm" /\ iterations >= max_tool_runs
    /\ pc' = "closed"
    /\ sse' = Append(sse \o Events(<<Chunk("metadata", "", 0), Chunk("done", "", 0)>>), Done)
    /\ NoInvoke
    /\ UNCHANGED <<selfMessages, llmCalls, toolRuns, nextRunId, turnVars, outsideTurn>>

\* cancellation from above (the caller disconnects) while the engine reads the
\* LLM stream or is suspended on a confirmation: the stream is abandoned, the
\* pending confirmation is released as denied (its tool is not invoked) and
\* the entries of the call leave both broker tables
Cancel ==
    /\ pc \in {"llm", "awaiting"}
    /\ pc' = "cancelled"
    /\ IF pc = "awaiting"
       THEN /\ pending' = Without(pending, Head(pending_tool_calls).id)
            /\ results' = Without(results, Head(pending_tool_calls).id)
       ELSE UNCHANGED <<pending, results>>
    /\ NoInvoke
    /\ UNCHANGED <<selfMessages, llmCalls, toolRuns, nextRunId, sse, iterations,
                   pending_tool_calls, posted, invoked, outsideTurn>>

TurnInit ==
    /\ max_tool_runs \in 1..MaxToolRuns
    /\ selfMessages = << >>
    /\ conversation_summary = FALSE
    /\ pc = "idle"
    /\ graph = NoGraph
    /\ llmCalls = 0
    /\ toolRuns = 0
    /\ nextRunId = 1
    /\ sse = << >>
    /\ TurnIdle
    /\ SessIdle
    /\ sim \in {ApiSimTable(sc, 95) : sc \in {50, 95}}
    /\ nodes = <<UserNode, StoredFact>>
    /\ edges = {<<1, "HAS_FACT", 2>>}
    /\ nextNode = 3
    /\ lastCall = NoCall
    /\ NeoIdle
    /\ CtxIdle

TurnNext ==
    \/ StreamTurn
    \/ \E raised \in BOOLEAN : LlmAnswer(raised)
    \/ \E names \in CallLists : LlmToolCalls(names)
    \/ AwaitConfirmation
    \/ \E tool_id \in 1..MaxTurnCalls, approved \in BOOLEAN :
          ConfirmTool(tool_id, approved)
    \/ \E failed \in BOOLEAN : Resume(failed)
    \/ \E failed \in BOOLEAN : InvokeTool(failed)
    \/ EndIteration
    \/ Finish
    \/ Cancel

SpecTurn == TurnInit /\ [][TurnNext]_vars

\* ------------------------------------------------------------------------
\* Claims about the duplicate guard of the Memory API
\* ------------------------------------------------------------------------
\* C17 (as claimed): when the duplicate guard of add_fact or add_preference
\* matches an existing Fact or Preference node, that node is updated in place:
\* it carries the new text and the embedding recomputed from it.
C17_MatchedNodeUpdated ==
    [][(lastCall'.op \in {"add_fact", "add_preference"} /\ lastCall'.ret = "similar_exists")
       => /\ lastCall'.id \in DOMAIN nodes'
          /\ nodes'[lastCall'.id].key = lastCall'.arg[1]
          /\ nodes'[lastCall'.id].emb =
                IF lastCall'.op = "add_fact"
                THEN FactText(lastCall'.arg[1], lastCall'.arg[2])
                ELSE PreferenceText(lastCall'.arg[1])]_vars

\* ------------------------------------------------------------------------
\* Claims about the query texts
\* ------------------------------------------------------------------------
QueryTexts(sent) == [i \in DOMAIN sent |-> sent[i].text]

\* C14 (as claimed): the text of every query sent to the graph store is
\* independent of caller-supplied strings: two calls of the same operation that
\* differ only in the values of type_filter, node_labels or names (each given
\* in both calls, the lists of the same length) send the same query texts and
\* differ only in bound parameters.
C14_TextIndependentOfStrings ==
    /\ lastCall.op = "list_memories" /\ lastCall.status = 200
       /\ lastCall.arg.type_filter # ""
       => \A other \in TypeFilters \ {""} :
             QueryTexts(lastCall.sent)
                = QueryTexts(<<AgentGetQuery, ListMemoriesQuery(other)>>)
    /\ lastCall.op = "retrieve_context"
       => \A names \in EntityNameLists, node_labels \in NodeLabelLists :
             (/\ Len(names) = Len(lastCall.arg.entity_names)
              /\ Len(node_labels) = Len(lastCall.arg.node_labels))
             => QueryTexts(lastCall.sent)
                   = QueryTexts(RetrieveContextQueries(names, node_labels))

\* ------------------------------------------------------------------------
\* Claims about hybrid retrieval
\* ------------------------------------------------------------------------
IsRetrieval(c) == c.op = "get_context_aware_memories"

\* the message contains the canonical name of Person p as a word
NamesPerson(user_message, p) ==
    persons[p].name \in Range(FindAll(user_message, << >>, << >>))

\* C11 (as claimed): for every store, every k >= 1 and every query that contains
\* as a word the exact name of a Person with at least one linked memory, the
\* top-k list of the retriever contains at least one memory linked to that
\* Person, whatever the semantic scores of the other memories.
C11_EntityMemoryInTopK ==
    IsRetrieval(lastCall) =>
        \A p \in PersonIds :
            (NamesPerson(lastCall.user_message, p) /\ LinkedTo(p) # {})
            => \E i \in DOMAIN lastCall.sorted_mems :
                  lastCall.sorted_mems[i].eid \in LinkedTo(p)

IsPrefixOf(s, t) == Len(s) <= Len(t) /\ \A i \in DOMAIN s : s[i] = t[i]

\* C12 (as claimed): on an unchanged store the list returned for limit k is a
\* prefix of the list returned for limit k + 1.
C12_PrefixOfNextLimit ==
    IsRetrieval(lastCall) =>
        IsPrefixOf(lastCall.ret,
                   Retrieve(lastCall.user_message, lastCall.top_k + 1, lastCall.records,
                            lastCall.vector_records).results)

\* C18 (as claimed): the retriever's output is in non-increasing order of score,
\* and of two results of equal score the entity-linked one (source = graph) comes
\* before the purely semantic one.
C18_ScoreThenGraphFirst ==
    IsRetrieval(lastCall) =>
        \A i, j \in DOMAIN lastCall.sorted_mems :
            i < j =>
              /\ lastCall.sorted_mems[i].score >= lastCall.sorted_mems[j].score
              /\ ~(/\ lastCall.sorted_mems[i].score = lastCall.sorted_mems[j].score
                   /\ lastCall.sorted_mems[i].source = "semantic"
                   /\ ~lastCall.sorted_mems[i].relationship
                   /\ lastCall.sorted_mems[j].source = "graph")

\* the vector-search score of a returned memory for the call's message
VectorScore(e) == Sim(mems[e.eid].summary, lastCall.user_message)

\* found by the vector search and in the detected entity's subgraph
InBothSets(e) == e.source = "semantic" /\ e.relationship

\* C29 (as claimed): in hybrid retrieval every memory found only through the
\* detected entity's subgraph gets score 0.9, and a memory found both by
\* vector search (score s) and in the subgraph gets max(s, 0.9) + 0.05.
C29_BoostAsClaimed ==
    IsRetrieval(lastCall) =>
        \A i \in DOMAIN lastCall.sorted_mems :
            LET e == lastCall.sorted_mems[i] IN
            /\ e.source = "graph" => e.score = 90
            /\ InBothSets(e) => e.score = Max({VectorScore(e), 90}) + 5

\* C29 (amended): every memory found only through the detected entity's
\* subgraph gets score 0.9, and a memory found both by vector search (score s)
\* and in the subgraph gets max(s, 0.95): 0.95 when s is below it, s unchanged
\* otherwise, so that no score exceeds 1.
C29_BoostToAtLeast95 ==
    IsRetrieval(lastCall) =>
        \A i \in DOMAIN lastCall.sorted_mems :
            LET e == lastCall.sorted_mems[i] IN
            /\ e.source = "graph" => e.score = 90
            /\ InBothSets(e) => e.score = Max({VectorScore(e), 95})
            /\ e.score <= 100

\* C29 witness: a retrieval that returned a memory found only through the
\* subgraph and a memory in both sets whose vector score is above 0.95
C29_Witness ==
    /\ IsRetrieval(lastCall)
    /\ \E i \in DOMAIN lastCall.sorted_mems : lastCall.sorted_mems[i].source = "graph"
    /\ \E i \in DOMAIN lastCall.sorted_mems :
          /\ InBothSets(lastCall.sorted_mems[i])
          /\ VectorScore(lastCall.sorted_mems[i]) > 95

IsDetection(c) == c.op \in {"detect_entity_hybrid", "get_context_aware_memories"}

\* a word of the message equals, case-insensitively, the canonical name or an
\* alias of Person p
HasExactWord(user_message, p) ==
    \E w \in Range(ExtractWordsFromMessage(user_message)) :
        \/ w = LowerStr(persons[p].name)
        \/ \E a \in Range(persons[p].aliases) : w = LowerStr(a)

\* C19: if a word of the query equals case-insensitively a canonical name or an
\* alias, entity detection returns a Person that has such a name, even when
\* another word has a fuzzy ratio above 0.8 to a different Person and whatever
\* the order of the scan.
C19_ExactMatchWins ==
    (IsDetection(lastCall) /\ \E p \in PersonIds : HasExactWord(lastCall.user_message, p))
    => /\ lastCall.person_id \in PersonIds
       /\ HasExactWord(lastCall.user_message, lastCall.person_id)

\* C19 witness: the scan met Alek first, to whom the word "aleks" has ratio 0.89,
\* and detection returned Bo, whose name is a word of the message.
C19_Witness ==
    /\ IsDetection(lastCall)
    /\ lastCall.user_message = QueryAleksBo
    /\ lastCall.records = <<1, 2>>
    /\ Ratio(QueryAleks, LowerStr(persons[1].name)) > 8000
    /\ ~HasExactWord(lastCall.user_message, 1)
    /\ lastCall.person_id = 2

\* ------------------------------------------------------------------------
\* Claims about the smart memory store and the canonicalizer
\* ------------------------------------------------------------------------

\* C5 (as claimed): whenever a fact is saved whose embedding has cosine
\* similarity >= 0.93 to an existing Memory of the same type, no Memory node is
\* created by the call.
C5_NoGrowthAtThreshold ==
    [][(/\ lastCall'.op = "save_memory"
        /\ lastCall'.type \in {"preference", "fact"}
        /\ \E m \in hasMemory :
              /\ mems[m].type = lastCall'.type
              /\ Sim(mems[m].summary, lastCall'.summary) >= 93)
       => DOMAIN mems' = DOMAIN mems]_vars

\* C7: after any sequence of canonicalize calls (direct, through save_memory or
\* through get_person_state) no two Persons share a canonical name, no string is
\* an alias of two Persons, and no alias of one Person is the canonical name of
\* another.
C7_PersonsDisjoint ==
    \A p, q \in PersonIds :
        p # q =>
            /\ persons[p].name # persons[q].name
            /\ Range(persons[p].aliases) \cap Range(persons[q].aliases) = {}
            /\ persons[p].name \notin Range(persons[q].aliases)

\* C7 witness: two Persons exist, one of them carries an alias, and save_memory
\* has linked a Memory to a canonicalized Person.
C7_Witness ==
    /\ Cardinality(PersonIds) >= 2
    /\ \E p \in PersonIds : persons[p].aliases # <<>>
    /\ links # {}
    /\ lastCall.op = "get_person_state"

\* the characters of the pattern [A-Z_]
PatternChars ==
    {"A", "B", "C", "D", "E", "F", "G", "H", "I", "J", "K", "L", "M", "N", "O", "P",
     "Q", "R", "S", "T", "U", "V", "W", "X", "Y", "Z", "_"}

\* a string matches [A-Z_]+
MatchesPattern(t) == t # << >> /\ \A i \in DOMAIN t : t[i] \in PatternChars

\* C13 (as claimed): for every caller-supplied relationship_type, the type of
\* the edges save_memory creates matches [A-Z_]+; it is RELATES_TO when no
\* character of the input is valid, and an input that already matches the
\* pattern (ARGUED_WITH) is used unchanged.
C13_TypeMatchesPattern ==
    [][lastCall'.op = "save_memory"
       => \A l \in links' \ links :
             /\ MatchesPattern(l[2])
             /\ (\A i \in DOMAIN lastCall'.relationship_type :
                    lastCall'.relationship_type[i] \notin PatternChars) => l[2] = RelatesTo
             /\ MatchesPattern(lastCall'.relationship_type)
                    => l[2] = lastCall'.relationship_type]_vars

\* the heuristic as the claims state it: similarity above 0.85, the same first
\* character case-insensitively, and lengths at most 6 apart
PassesHeuristic(b, a) ==
    /\ Sim(b, a) > 85
    /\ Lower(b[1]) = Lower(a[1])
    /\ Abs(Len(b) - Len(a)) <= 6

IsCanonicalizeCall(c) == c.op \in {"canonicalize", "get_person_state"}

\* C8 (as claimed): a call canonicalize(B), B passing the heuristic against the
\* Person created for another name A, returns that Person's id and leaves B
\* among its aliases.
C8_SameIdAsClaimed ==
    [][IsCanonicalizeCall(lastCall') =>
         \A a \in PersonIds :
            (/\ lastCall'.name # persons[a].name
             /\ PassesHeuristic(lastCall'.name, persons[a].name))
            => /\ lastCall'.ret = a
               /\ lastCall'.name \in Range(persons'[a].aliases)]_vars

\* C8 (amended): a call canonicalize(B), B passing the heuristic against the
\* Person created for another name A and against no other Person, returns that
\* Person's id and leaves B among its aliases; and a call canonicalize(n) for a
\* name n that is already the canonical name or an alias of a Person returns
\* that Person's id and changes no Person node.
C8_Stability ==
    [][IsCanonicalizeCall(lastCall') =>
         /\ \A a \in PersonIds :
               (/\ lastCall'.name # persons[a].name
                /\ PassesHeuristic(lastCall'.name, persons[a].name)
                /\ \A o \in PersonIds \ {a} :
                      ~PassesHeuristic(lastCall'.name, persons[o].name))
               => /\ lastCall'.ret = a
                  /\ lastCall'.name \in Range(persons'[a].aliases)
         /\ \A p \in PersonIds :
               (\/ lastCall'.name = persons[p].name
                \/ lastCall'.name \in Range(persons[p].aliases))
               => /\ lastCall'.ret = p
                  /\ persons' = persons]_vars

\* C8 witness: the last call canonicalized a name B to a Person created for
\* another name, B is among that Person's aliases, and another Person exists.
C8_Witness ==
    /\ lastCall.op = "canonicalize"
    /\ lastCall.ret \in PersonIds
    /\ persons[lastCall.ret].name # lastCall.name
    /\ lastCall.name \in Range(persons[lastCall.ret].aliases)
    /\ Cardinality(PersonIds) >= 2

\* some Person has the name as canonical name or alias
KnownName(name) ==
    \E p \in PersonIds : persons[p].name = name \/ name \in Range(persons[p].aliases)

\* C20: if the embedder fails while canonicalize(name) runs, step 1 alone
\* decides: a name that is the canonical name or an alias of a Person returns
\* that Person, any other name makes the call fail, and in both cases no alias
\* is appended and no Person is created.
C20_OnlyStepOneDecides ==
    [][lastCall'.op = "canonicalize_embedder_down"
       => /\ persons' = persons
          /\ lastCall'.raised <=> ~KnownName(lastCall'.name)
          /\ ~lastCall'.raised =>
                /\ lastCall'.ret \in PersonIds
                /\ \/ persons[lastCall'.ret].name = lastCall'.name
                   \/ lastCall'.name \in Range(persons[lastCall'.ret].aliases)]_vars

\* C20 witness: the embedder failed for a name that passes the heuristic
\* against a stored Person, so with the embedder up the name would have been
\* appended as an alias; the call failed and the Persons are as before.
C20_Witness ==
    /\ lastCall.op = "canonicalize_embedder_down"
    /\ lastCall.raised
    /\ \E p \in PersonIds : PassesHeuristic(lastCall.name, persons[p].name)
    /\ ~KnownName(lastCall.name)

\* ------------------------------------------------------------------------
\* Claims about the typed Memory API
\* ------------------------------------------------------------------------

\* the data model's standing conditions: one User node, no two Facts with the
\* same content
OneUserUniqueFacts ==
    /\ Cardinality(NodesOf("User")) = 1
    /\ \A m, n \in NodesOf("Fact") : nodes[m].key = nodes[n].key => m = n

\* C6 (as claimed, read on stores that hold one User node and no two Facts with
\* the same content): after add_fact(c, k) has been called twice in a row,
\* exactly one Fact node has content c and exactly one HAS_FACT edge leads from
\* the User node to it.
C6_TwiceExactlyOne ==
    (lastCall.op = "add_fact" /\ lastCall.twice /\ OneUserUniqueFacts) =>
        /\ Cardinality(Matching(nodes, "Fact", lastCall.arg[1])) = 1
        /\ Cardinality({e \in edges : /\ e[2] = "HAS_FACT"
                                      /\ e[1] \in NodesOf("User")
                                      /\ e[3] \in Matching(nodes, "Fact", lastCall.arg[1])}) = 1

\* ------------------------------------------------------------------------
\* Claims about the context manager
\* ------------------------------------------------------------------------
\* process has run with compression enabled on a list over the threshold
OverBudgetCall ==
    /\ ctxResult.called
    /\ ctxManager.enabled
    /\ count_message_tokens(ctxMessages) > ctxManager.max_context_tokens

\* C9 (as claimed): with compression enabled, for every message list whose
\* estimated token total exceeds max_context_tokens, the list process returns
\* has an estimated token total <= max_context_tokens.
C9_WithinMaxContext ==
    OverBudgetCall =>
        count_message_tokens(ctxResult.messages) <= ctxManager.max_context_tokens

\* the messages of a list that come from the input's conversation part
Recent(messages) == SelectSeq(messages, LAMBDA m : m.ix > 1)

\* the injected summary messages of a list
Summaries(messages) == SelectSeq(messages, LAMBDA m : m.ix = 0)

\* C9 (amended): with compression enabled, for every list of at least three
\* messages whose estimated total exceeds max_context_tokens, the returned list
\* is the first message, at most one summary message and recent messages whose
\* estimated total is <= window_tokens; so its total is at most the estimate of
\* the first message plus that of the summary message plus window_tokens.
C9_WindowBudget ==
    (OverBudgetCall /\ Len(ctxMessages) >= 3) =>
        LET out == ctxResult.messages IN
        /\ out[1] = ctxMessages[1]
        /\ Len(Summaries(out)) <= 1
        /\ Len(out) = 1 + Len(Summaries(out)) + Len(Recent(out))
        /\ count_message_tokens(Recent(out)) <= ctxManager.window_tokens
        /\ count_message_tokens(out) <=
               count_message_tokens(<<ctxMessages[1]>>)
                 + count_message_tokens(Summaries(out)) + ctxManager.window_tokens

\* a compression that stays within the window bound and yet ends over
\* max_context_tokens
C9_Witness ==
    /\ OverBudgetCall
    /\ ctxResult.event.type = "summary_generated"
    /\ Len(Recent(ctxResult.messages)) >= 1
    /\ count_message_tokens(ctxResult.messages) > ctxManager.max_context_tokens

\* C30 (as claimed): the token estimate of every text span is
\* max(1, len(text)/4), so it is at least 1 for every span, spans shorter than
\* 4 characters included, and the estimate of a multi-part message is the sum
\* of the estimates of its text parts.
C30_EstimateAtLeastOne ==
    ctxResult.called =>
        \A i \in DOMAIN ctxMessages :
            LET content == ctxMessages[i].content IN
            /\ \A k \in DOMAIN content :
                  /\ estimate_tokens(content[k]) = Max({1, content[k] \div 4})
                  /\ estimate_tokens(content[k]) >= 1
            /\ count_message_tokens(<<ctxMessages[i]>>) = SumParts(content)

\* C27: process calls the summarising LLM and returns a summary_generated
\* event if and only if compression is enabled, the list has at least 3
\* messages, its estimated total exceeds max_context_tokens and at least one
\* message after the system message falls outside the recent window (the
\* messages after message 0 do not all fit in window_tokens together); in every
\* other case it makes no LLM call and returns no event, and when the window
\* covers all messages it only injects the existing summary.
C27_SummarisesIffOutsideWindow ==
    ctxResult.called =>
        LET over == /\ ctxManager.enabled
                    /\ Len(ctxMessages) >= 3
                    /\ count_message_tokens(ctxMessages) > ctxManager.max_context_tokens
            outside == count_message_tokens(Tail(ctxMessages)) > ctxManager.window_tokens
        IN /\ ctxResult.llm <=> (over /\ outside)
           /\ (ctxResult.event.type = "summary_generated") <=> (over /\ outside)
           /\ (over /\ ~outside) =>
                  ctxResult.messages = InjectSummary(ctxMessages, ctxSummary)
           /\ ~ctxManager.enabled => ctxResult.messages = ctxMessages

\* a call over the threshold whose window covered every message: the existing
\* summary was injected and no summary generated
WindowCoversAll ==
    /\ ctxResult.called
    /\ ctxManager.enabled
    /\ Len(ctxMessages) >= 3
    /\ count_message_tokens(ctxMessages) > ctxManager.max_context_tokens
    /\ ~ctxResult.llm
    /\ ctxSummary # 0
    /\ Len(ctxResult.messages) = Len(ctxMessages) + 1

\* C27 witness: a call on three or more messages over the threshold that
\* called the summarising model and returned the event
C27_Witness ==
    /\ ctxResult.called
    /\ ctxResult.llm
    /\ ctxResult.event.type = "summary_generated"
    /\ ctxResult.event.messages_summarized >= 1
    /\ Len(ctxMessages) >= 3

\* C10 (as claimed): whenever process compresses a list that ends with the
\* current user message, the output starts with the input's first (system)
\* message and its last message is the last message of the input.
C10_KeepsFirstAndLast ==
    (/\ ctxResult.called
     /\ ctxResult.event.type = "summary_generated"
     /\ ctxMessages[Len(ctxMessages)].role = "human") =>
        LET out == ctxResult.messages IN
        /\ out[1] = ctxMessages[1]
        /\ out[Len(out)] = ctxMessages[Len(ctxMessages)]

\* ------------------------------------------------------------------------
\* Claims about the chat turn
\* ------------------------------------------------------------------------
\* C3 (as claimed): for every max_tool_runs = N >= 1 and every model behaviour,
\* one turn performs at most N LLM calls.
C3_AtMostNLlmCalls == llmCalls <= max_tool_runs

\* the events of the turn's stream that are done events
DoneEvents == SelectSeq(sse, LAMBDA e : e.kind = "done")

\* C4 (as claimed): a turn's event stream, once closed, ends with a done event
\* and holds exactly one, also when the LLM, a tool or the graph store raised
\* during the turn.
C4_EndsWithOneDone ==
    pc = "closed" =>
        /\ Len(DoneEvents) = 1
        /\ sse[Len(sse)] = Done

\* the tool runs shown to the caller: the started events of the stream
ShownToolRuns == {i \in DOMAIN sse : sse[i].kind = "tool_call" /\ sse[i].status = "started"}

\* C21 (as claimed): during one stream_response turn every tool call asked
\* for by the model is executed exactly once: the number of tool invocations
\* performed equals the number shown to the caller as tool_start events, so
\* that no tool runs a second time without an event.
C21_ToolRunsEqualEvents == toolRuns = Cardinality(ShownToolRuns)

\* ------------------------------------------------------------------------
\* Claims about the typed graph under any sequence of Memory API calls
\* ------------------------------------------------------------------------
\* C23 (as claimed): in every state reachable by add_fact, add_preference,
\* update_fact_or_preference and delete_memory calls, no two Fact nodes have
\* the same content and no two Preference nodes have the same instruction.
C23_UniqueKeys ==
    \A a, b \in NodesOf("Fact") \cup NodesOf("Preference") :
        (nodes[a].label = nodes[b].label /\ nodes[a].key = nodes[b].key) => a = b

\* C25 (as claimed): after initialization exactly one User node exists in
\* every state reachable by Memory API tool calls, delete_memory removing a
\* node only if it is a Person, Event, Fact or Preference.
C25_OneUserNode == Cardinality(NodesOf("User")) = 1

\* C24 (as claimed): add_event(description, participants, mentioned_people,
\* date=d) creates PARTICIPATED_IN and MENTIONS edges only on the Event whose
\* key is (d, description): an existing Event with the same description and
\* another date keeps exactly the edges it had before the call.
C24_OtherEventsKeepEdges ==
    [][lastCall'.op = "add_event" =>
          \A e \in NodesOf("Event") :
              nodes[e].key # EventKey(lastCall'.date, lastCall'.description)
                  => EdgesAt(edges', e) = EdgesAt(edges, e)]_vars

\* ------------------------------------------------------------------------
\* Claims about the acceptance rule of the canonicalizer
\* ------------------------------------------------------------------------
\* the Persons the rule as claimed accepts name as an alias of
AcceptedAsClaimed(ps, name) ==
    {p \in DOMAIN ps : /\ Sim(name, ps[p].name) >= 85
                       /\ Lower(name[1]) = Lower(ps[p].name[1])
                       /\ Abs(Len(name) - Len(ps[p].name)) <= 6}

\* C28 (as claimed): when canonicalize(name) finds no exact name or alias
\* match, it appends name to the aliases of an existing Person p and returns
\* p's id if and only if some Person has cosine similarity >= 0.85, the same
\* first character case-insensitively and a length difference <= 6 (p being
\* such a Person); otherwise it creates exactly one new Person and returns its
\* id.
C28_AliasIffThreeConditions ==
    [][(lastCall'.op = "canonicalize" /\ ExactOrAlias(persons, lastCall'.name) = {}) =>
          IF AcceptedAsClaimed(persons, lastCall'.name) # {}
          THEN /\ lastCall'.ret \in AcceptedAsClaimed(persons, lastCall'.name)
               /\ persons' = AddAlias(persons, lastCall'.ret, lastCall'.name)
          ELSE /\ lastCall'.ret \notin DOMAIN persons
               /\ persons' = CreatePerson(persons, lastCall'.ret, lastCall'.name)]_vars

\* ------------------------------------------------------------------------
\* Claims about sessions that canonicalize in parallel
\* ------------------------------------------------------------------------
\* the Person nodes whose canonical name is name
PersonsNamed(name) == {p \in DOMAIN persons : persons[p].name = name}

\* C22 (as claimed): when two sessions running in parallel call canonicalize
\* for the same previously unknown name and their graph queries interleave,
\* exactly one Person with that canonical name exists afterwards and both
\* calls return its id.
C22_OnePersonBothReturnIt ==
    (/\ \A s \in SessionIds : sessions[s].pc = "done"
     /\ sessions[1].name = sessions[2].name)
        => /\ Cardinality(PersonsNamed(sessions[1].name)) = 1
           /\ sessions[1].ret = sessions[2].ret
           /\ sessions[1].ret \in PersonsNamed(sessions[1].name)

\* the memories a message content holds, in order
MemoriesIn(content) == SelectSeq(content, LAMBDA line : line \in StoredMemories)

\* C26 (as claimed): at the start of every turn message 0 of the working
\* message list is replaced by the system prompt rendered from this turn's
\* retrieval: after any number of turns it contains the memories retrieved in
\* the current turn only and none retrieved in an earlier turn, also when the
\* current turn retrieves no memory.
C26_PromptHoldsThisTurnOnly ==
    lastCall.op = "stream_response" =>
        /\ selfMessages[1].role = "system"
        /\ MemoriesIn(selfMessages[1].content) = lastCall.memories

\* ------------------------------------------------------------------------
\* Claims about the broker tables at the end of a turn
\* ------------------------------------------------------------------------
\* the tool_call_ids registered in the turn
Registered == 1..(nextRunId - 1)

LlmChunks == {i \in DOMAIN sse : sse[i].kind \in {"content", "thinking"}}

\* the positions at which the result of a tool call is emitted
ToolResults == {i \in DOMAIN sse : /\ sse[i].kind = "tool_call"
                                    /\ sse[i].status \in {"completed", "denied"}}

\* C16: within one turn the started event (tool_start) of a tool call precedes
\* that call's completed or denied event (tool_end, tool_denied), and every tool
\* result of an iteration is emitted before the first content or thinking chunk
\* of the next LLM call: no LLM chunk lies between the start of a call and its
\* result.
C16_StartThenResultThenNextLlm ==
    \A j \in ToolResults :
        LET started == {i \in DOMAIN sse : /\ sse[i].kind = "tool_call"
                                           /\ sse[i].status = "started"
                                           /\ sse[i].tool_id = sse[j].tool_id}
        IN /\ \E i \in started : i < j
           /\ \A c \in LlmChunks : c < j => \A i \in started : c < i

\* C16 witness: a turn that ran to done with two tool runs whose results were
\* emitted, the first followed by LLM chunks of the final answer.
C16_Witness ==
    /\ pc = "closed"
    /\ sse[Len(sse)] = Done
    /\ Cardinality(ToolResults) >= 2
    /\ \E j \in ToolResults, c \in LlmChunks : j < c

\* ------------------------------------------------------------------------
\* Claims about the confirmation of tool calls
\* ------------------------------------------------------------------------
\* the positions of the stream at which an event of that status names tool_id
Positions(tool_id, statuses) ==
    {i \in DOMAIN sse : /\ sse[i].kind = "tool_call"
                         /\ sse[i].tool_id = tool_id
                         /\ sse[i].status \in statuses}

MarkedDenied(tool_id) ==
    \E i \in DOMAIN selfMessages :
        selfMessages[i] = Message("tool", tool_id, DenialMarker)

\* what C2 asks of every state
C2_State ==
    /\ \A call \in invoked :
          (\E i \in DOMAIN call.name : call.name[i] \in {"add_", "update_", "delete_"})
              => <<call.id, TRUE>> \in posted
    /\ \A p \in posted :
          ~p[2] => /\ \A call \in invoked : call.id # p[1]
                   /\ pc = "llm" => MarkedDenied(p[1])

====
